---- MODULE Spec2Model ----
(***************************************************************************)
(* A model of the core of the DoctarxAgents daemon:                        *)
(*   - the cryptographic audit trail   (src/src/protocols/audit-trail.ts)  *)
(*   - the daemon's task queue         (DaemonLoop.enqueueTask and         *)
(*                                      DaemonLoop.processQueue)           *)
(*   - the circuit breaker registry    (healing/circuit-breaker)           *)
(*   - the bounded autonomy engine     (src/src/protocols/                 *)
(*                                      bounded-autonomy.ts)               *)
(*   - the orchestrator's task map, executeTask and tool_use loop, with    *)
(*     the admin cancel route          (src/unnamed/part_006,              *)
(*                                      src/src/gateway/admin-routes.ts)   *)
(*   - the agent-to-agent message bus  (src/src/protocols/a2a.ts)          *)
(*   - the self-healing engine         (src/src/healing/self-healer.ts)    *)
(*   - the daemon's lifecycle and scheduled jobs (DaemonLoop.start, stop,  *)
(*     tick and runJob)                                                    *)
(* Each component has its own next-state relation and specification, and   *)
(* Spec is their composition.                                              *)
(***************************************************************************)
EXTENDS Integers, Sequences, FiniteSets, TLC

VARIABLES
    now,              \* the wall clock, in milliseconds (Date.now())
    \* ---- AuditTrail ----
    auditRows,        \* the audit_trail table, in insertion order
    sequenceCounter,  \* AuditTrail.sequenceCounter
    lastHash,         \* AuditTrail.lastHash
    recordCalls,      \* history: number of record() calls made
    recorded,         \* history: number of record() calls that returned an entry
    tampered,         \* history: <<>> or <<i, the row as it was recorded>>
    failedWrites,     \* history: the record() calls, by ordinal, whose INSERT threw
    reopenLog,        \* history: for each re-open, the rows held and calls made then
    \* ---- DaemonLoop ----
    taskQueue,        \* DaemonLoop.taskQueue, the tasks waiting
    processing,       \* DaemonLoop.processing
    executing,        \* the tasks inside orchestrator.executeTask, each awaited by
                      \* the processQueue() invocation that shifted it
    activeDrains,     \* the processQueue() invocations that are inside their loop
    taskCount,        \* history: number of enqueueTask() calls made
    startOrder,       \* history: the tasks in the order their processing started
    waitingAtStart,   \* history: for each start, the tasks left waiting then
    resolved,         \* history: ids of the tasks whose promise was resolved
    execLog,          \* memory.logExecution records: <<task id, success>>
    \* ---- CircuitBreakerRegistry ----
    breakers,         \* the registry: operation name -> CircuitBreakerState
    lastCall,         \* history: the last call made on the registry
    consecFails,      \* history: per name, recordFailure calls since the last
                      \* recordSuccess or reset
    totalFails,       \* history: per name, recordFailure calls ever made
    \* ---- BoundedAutonomyEngine ----
    policies,         \* BoundedAutonomyEngine.policies
    overrides,        \* BoundedAutonomyEngine.overrides: tool name -> <<>> or <<authority>>
    decisionLog,      \* BoundedAutonomyEngine.auditLog
    lastValidate,     \* history: the last validateValueThreshold call
    \* ---- Orchestrator ----
    tasks,            \* Orchestrator.tasks: task id -> Task, <<>> before createTask
    handlers,         \* the executeTask() calls awaiting their handler: task ids
    events,           \* Orchestrator.executionLog: the events emitted, in order
    returned,         \* history: task id -> <<>> or <<what executeTask returned>>
    cancelled,        \* history: task id -> <<>> or <<what the cancel route wrote>>
    lastInvoke,       \* history: the last tool_use block a handler processed
    \* ---- A2AProtocol ----
    mailboxes,        \* A2AProtocol.queues: agent id -> the messages held
    registered,       \* the agent ids that have a queue (queues.has)
    acknowledged,     \* A2AProtocol.acknowledged, in insertion order
    msgCount,         \* history: number of messages created
    placed,           \* history: the messages pushed into a mailbox, with the
                      \* mailboxes each was pushed into
    consumedBy,       \* history: agent id -> ids returned to it by consume()
    ackedDirectly,    \* history: ids acknowledged by acknowledge() or respond()
    expiredEvents,    \* history: the a2a:expired events emitted, as message ids
    lastReceive,      \* history: the last receive() or consume() call
    \* ---- SelfHealingEngine ----
    consecutiveUnhealthy,  \* SelfHealingEngine.consecutiveUnhealthy
    lastHealthReport,      \* SelfHealingEngine.lastHealthReport
    unhealthyStreak,       \* history: consecutive runs that had an unhealthy probe
    healthRuns,            \* history: number of runHealthCheck() calls made
    lastRun,               \* history: what the last runHealthCheck() did
    \* ---- DaemonLoop: lifecycle and scheduled jobs ----
    running,          \* DaemonLoop.running
    startCalls,       \* history: number of start() calls that found running false
    startsAwaiting,   \* the start() calls at their await of gateway.start()
    stopsAwaiting,    \* the stop() calls at their await of gateway.stop(), in call
                      \* order: for each, whether start() was called since
    timerCount,       \* history: number of setInterval handles issued
    liveTimers,       \* the intervals set and not cleared: [h, fires]
    mainLoopTimer,    \* DaemonLoop.mainLoopTimer: <<>> or <<handle>>
    jobTimers,        \* DaemonLoop.jobTimers: job id -> <<>> or <<handle>>
    tickCount,        \* DaemonLoop.tickCount
    nextRun,          \* scheduledJobs: job id -> job.nextRun
    directWork,       \* job id -> the runJob() invocations awaiting work they
                      \* started themselves
    jobTasks,         \* history: job id -> ids of the tasks its runs enqueued
    runCount,         \* history: number of runJob() invocations made
    memoryOpen,       \* FALSE once memory.close() was called
    quiesced,         \* history: a stop() completed and start() was not called
                      \* after that stop() was called
    inFlightAtStop,   \* history: ids of the tasks inside executeTask when
                      \* stop() was called
    lastFire,         \* history: what the last runJob() invocations did
    lastSettle,       \* history: the outcome last logged and the flag logged for it
    \* ---- Orchestrator: the tool registry ----
    toolRegistry,     \* Orchestrator.tools: tool name -> <<>> or <<definition>>
    firstBound,       \* history: tool name -> the definition first registered
    lastToolUse,      \* history: the last tool_use block of a sub-agent
    \* ---- the shutdown handler of index.ts ----
    shutdown,         \* where the handler is, and the steps it has run
    \* ---- GatewayServer ----
    clients,          \* GatewayServer.clients: the WebSocket clients connected
    messageLog,       \* GatewayServer.messageLog, as its length
    lastInbound,      \* history: the last HTTP request or WebSocket message
    \* ---- TokenForge ----
    forge,            \* the execute() request in progress
    forgeStats,       \* TokenForge.stats: totalRequests, cacheHits
    forgeCache        \* TokenForge.cache: cache key -> <<>> or <<expiresAt>>

auditVars == <<auditRows, sequenceCounter, lastHash, recordCalls, recorded, tampered,
               failedWrites, reopenLog>>

queueVars == <<taskQueue, processing, executing, activeDrains, taskCount, startOrder,
               waitingAtStart, resolved, execLog, lastSettle>>

breakerVars == <<breakers, lastCall, consecFails, totalFails>>

govVars == <<policies, overrides, decisionLog, lastValidate>>

orchVars == <<tasks, handlers, events, returned, cancelled, lastInvoke>>

busVars == <<mailboxes, registered, acknowledged, msgCount, placed, consumedBy,
             ackedDirectly, expiredEvents, lastReceive>>

healVars == <<consecutiveUnhealthy, lastHealthReport, unhealthyStreak, healthRuns, lastRun>>

lifeVars == <<running, startCalls, startsAwaiting, stopsAwaiting, memoryOpen, quiesced,
              inFlightAtStop>>

timerVars == <<timerCount, liveTimers, mainLoopTimer, jobTimers>>

jobVars == <<nextRun, directWork, jobTasks, runCount, lastFire>>

daemonVars == <<lifeVars, timerVars, jobVars, tickCount>>

toolVars == <<toolRegistry, firstBound, lastToolUse>>

gatewayVars == <<clients, messageLog, lastInbound>>

forgeVars == <<forge, forgeStats, forgeCache>>

lateVars == <<toolVars, shutdown, gatewayVars, forgeVars>>

\* the components modelled further down
otherVars == <<orchVars, busVars, healVars, daemonVars, lateVars>>

vars == <<now, auditVars, queueVars, breakerVars, govVars, otherVars>>

\* ---- bounds of the model ----
MaxClock == 1          \* the clock runs over 0..MaxClock
MaxRegisterEvents == 4 \* registerTool() runs while the event log is shorter than this
MaxClients == 2        \* WebSocket clients that can be connected at one time
MessageLogCap == 2     \* stands for the 1000 messages the gateway's log may hold
MaxForgeRequests == 2  \* callers call execute() while totalRequests is below this
MaxAttempts == 4       \* the fallback re-enters execute() while the attempts are fewer
ResultCacheTtlMs == 1  \* stands for CONFIG.tokenForge.resultCacheTtlMs
ThresholdHaiku == 3    \* stands for CONFIG.tokenForge.complexityThresholdHaiku
ThresholdSonnet == 6   \* stands for CONFIG.tokenForge.complexityThresholdSonnet
MaxStartCalls == 2     \* start() finds running false at most this many times
MaxTicks == 2          \* the main loop interval fires while tickCount is below this
MaxJobRuns == 3        \* runJob() is invoked at most this many times
MaxOrchTasks == 2      \* createTask() is called at most this many times
MaxInvocations == 1    \* tool_use blocks that return, over all handlers
MaxMessages == 2       \* messages created on the bus
MaxBusClock == 1       \* the bus runs over the clock 0..MaxBusClock
AckCap == 1            \* stands for the 5000 ids the acknowledged set may hold
DefaultLimit == 2      \* stands for the default limit of 20 of receive/consume
MaxHealthRuns == 4     \* runHealthCheck() is called at most this many times
MaxRecordCalls == 3    \* record() is called at most this many times
MaxReopens == 1        \* the ledger is constructed anew at most this many times
MaxTamperedColumns == 2  \* an alteration changes at most this many columns of a row
MaxTasks == 4          \* enqueueTask() is called at most this many times
MaxBreakerClock == 2   \* the clock runs over 0..MaxBreakerClock beside the breakers
MaxFailures == 4       \* recordFailure() is called at most this often per name
DecisionLogCap == 2    \* stands for the 10000 entries the decision log may hold

(***************************************************************************)
(* AuditTrail                                                              *)
(***************************************************************************)

\* '0'.repeat(64), the genesis hash
GenesisHash == "0000000000000000000000000000000000000000000000000000000000000000"

\* createHash('sha256').update(payload).digest('hex'), idealised as collision
\* free: the digest determines the payload.  (A real digest is 64 hex digits and
\* holds no '|'; here the parentheses keep the nested digest apart from the
\* fields that follow it.)
Sha256(payload) == "sha256(" \o payload \o ")"

\* Date.prototype.toISOString for the first milliseconds of the epoch
ToISOString(t) == "1970-01-01T00:00:00.00" \o ToString(t) \o "Z"

\* The details objects record() is called with: a list of key/value pairs.  A
\* value of "[Circular]" stands for an object that refers to itself.
EmptyDetails == <<>>
ToolDetails == << <<"tool", "x">> >>
CircularDetails == << <<"self", "[Circular]">> >>
DetailsInputs == {EmptyDetails, ToolDetails, CircularDetails}

\* JSON.stringify throws a TypeError on a circular structure
StringifyThrows(details) == \E i \in 1..Len(details) : details[i][2] = "[Circular]"

RECURSIVE JsonMembers(_, _)
JsonMembers(details, i) ==
    IF i > Len(details) THEN ""
    ELSE (IF i > 1 THEN "," ELSE "")
         \o "\"" \o details[i][1] \o "\":\"" \o details[i][2] \o "\""
         \o JsonMembers(details, i + 1)

\* JSON.stringify(details) for an object of string members
JsonStringify(details) == "{" \o JsonMembers(details, 1) \o "}"

\* The names record() is called with.  A name may hold the '|' the payload is
\* joined with.
Actors == {"sys", "sys|boot"}
Actions == {"boot", "boot|boot"}
Targets == {"app"}

\* the mutant of RecordPayload: the target is left out of the hash
RecordPayloadNoTarget(prev, seq, iso, actor, action, target, detailsText) ==
    prev \o "|" \o ToString(seq) \o "|" \o iso \o "|" \o actor \o "|" \o action
         \o "|" \o detailsText

\* record(): the template string that is hashed
RecordPayload(prev, seq, iso, actor, action, target, detailsText) ==
    prev \o "|" \o ToString(seq) \o "|" \o iso \o "|" \o actor \o "|" \o action
         \o "|" \o target \o "|" \o detailsText

\* verifyChain(): the template string recomputed from a row
RowPayload(row) ==
    row.previous_hash \o "|" \o ToString(row.sequence_number) \o "|" \o row.timestamp
        \o "|" \o row.actor \o "|" \o row.action \o "|" \o row.target
        \o "|" \o row.details

\* the UNIQUE constraint on sequence_number rejects the INSERT
UniqueViolation(rows, seq) == \E i \in 1..Len(rows) : rows[i].sequence_number = seq

\* the mutant of InsertRow: the row is stored although run() threw
InsertRowAnyway(rows, row, throws) == Append(rows, row)

\* the INSERT of record(): the table afterwards.  Nothing is stored when
\* record() threw, before the statement or in it.
InsertRow(rows, row, throws) == IF throws THEN rows ELSE Append(rows, row)

\* record(actor, action, target, details).  storeOk = FALSE is a write the store
\* rejects (better-sqlite3's run() throws).  The counter is incremented first;
\* JSON.stringify, then the INSERT, may throw after that, and lastHash is
\* assigned only after the INSERT.
RecordEntry(actor, action, target, details, storeOk) ==
    /\ recordCalls < MaxRecordCalls
    /\ recordCalls' = recordCalls + 1
    /\ sequenceCounter' = sequenceCounter + 1
    /\ LET seq == sequenceCounter + 1
           iso == ToISOString(now)
           throws == \/ StringifyThrows(details)
                     \/ ~storeOk
                     \/ UniqueViolation(auditRows, seq)
           text == JsonStringify(details)
           hash == Sha256(RecordPayload(lastHash, seq, iso, actor, action, target, text))
           row == [id |-> recordCalls + 1, sequence_number |-> seq, timestamp |-> iso,
                   actor |-> actor, action |-> action, target |-> target,
                   details |-> text, previous_hash |-> lastHash, hash |-> hash]
       IN  /\ auditRows' = InsertRow(auditRows, row, throws)
           /\ IF throws
              THEN UNCHANGED <<lastHash, recorded>>
              ELSE /\ lastHash' = hash
                   /\ recorded' = recorded + 1
           /\ failedWrites' =
                  IF ~StringifyThrows(details) /\ (~storeOk \/ UniqueViolation(auditRows, seq))
                  THEN failedWrites \cup {recordCalls + 1}
                  ELSE failedWrites
    /\ UNCHANGED <<tampered, reopenLog>>

\* record() called on its own
Record(actor, action, target, details, storeOk) ==
    /\ RecordEntry(actor, action, target, details, storeOk)
    /\ UNCHANGED <<otherVars, now, queueVars, breakerVars, govVars>>

RecordCall ==
    \E actor \in Actors, action \in Actions, target \in Targets,
       details \in DetailsInputs, storeOk \in BOOLEAN :
        Record(actor, action, target, details, storeOk)

\* ORDER BY sequence_number ASC
RECURSIVE OrderBySeq(_)
OrderBySeq(rows) ==
    IF rows = {} THEN <<>>
    ELSE LET first == CHOOSE r \in rows :
                          \A o \in rows : r.sequence_number <= o.sequence_number
         IN  <<first>> \o OrderBySeq(rows \ {first})

SelectAllOrdered(rows) == OrderBySeq({rows[i] : i \in 1..Len(rows)})

\* verifyChain(): the loop over the rows from row i on
RECURSIVE VerifyFrom(_, _, _)
VerifyFrom(rows, i, previousHash) ==
    IF i > Len(rows)
    THEN [valid |-> TRUE, brokenAt |-> "undefined", totalEntries |-> Len(rows)]
    ELSE IF rows[i].previous_hash /= previousHash
    THEN [valid |-> FALSE, brokenAt |-> rows[i].sequence_number, totalEntries |-> Len(rows)]
    ELSE IF rows[i].hash /= Sha256(RowPayload(rows[i]))
    THEN [valid |-> FALSE, brokenAt |-> rows[i].sequence_number, totalEntries |-> Len(rows)]
    ELSE VerifyFrom(rows, i + 1, rows[i].hash)

\* verifyChain() on the table as it stands
VerifyChain == VerifyFrom(SelectAllOrdered(auditRows), 1, GenesisHash)

\* The clock advances, up to limit.
Tick(limit) ==
    /\ now < limit
    /\ now' = now + 1
    /\ UNCHANGED <<otherVars, auditVars, queueVars, breakerVars, govVars>>

\* The values an altered column may be given.
TimestampTexts == {ToISOString(t) : t \in 0..MaxClock}
DetailsTexts == {JsonStringify(d) : d \in {EmptyDetails, ToolDetails}}
KnownHashes(rows) ==
    {GenesisHash} \cup {rows[i].hash : i \in 1..Len(rows)}
                  \cup {rows[i].previous_hash : i \in 1..Len(rows)}

\* the columns in which two rows differ
ChangedColumns(a, b) == {c \in DOMAIN a : a[c] /= b[c]}

\* Somebody alters one persisted row outside of AuditTrail, as the test does with
\* UPDATE audit_trail SET action = ? WHERE sequence_number = 1.  Any of the hashed
\* columns may change, up to MaxTamperedColumns of them at once; the table's
\* UNIQUE constraint on sequence_number holds.  At most one row is ever altered.
Tamper ==
    /\ tampered = <<>>
    /\ \E i \in 1..Len(auditRows) :
        \E seq \in 1..(MaxRecordCalls + 1), ts \in TimestampTexts,
           actor \in Actors, action \in Actions \cup {"tampered"},
           target \in Targets, details \in DetailsTexts,
           prev \in KnownHashes(auditRows), hash \in KnownHashes(auditRows) :
            LET row == [id |-> auditRows[i].id, sequence_number |-> seq, timestamp |-> ts,
                        actor |-> actor, action |-> action, target |-> target,
                        details |-> details, previous_hash |-> prev, hash |-> hash]
            IN  /\ Cardinality(ChangedColumns(row, auditRows[i])) \in 1..MaxTamperedColumns
                /\ \A j \in 1..Len(auditRows) :
                       j /= i => auditRows[j].sequence_number /= seq
                /\ auditRows' = [auditRows EXCEPT ![i] = row]
                /\ tampered' = <<i, auditRows[i]>>
    /\ UNCHANGED <<otherVars, now, sequenceCounter, lastHash, recordCalls, recorded,
                   failedWrites, reopenLog, queueVars, breakerVars, govVars>>

\* the mutant of ResumeHash: a ledger constructed anew starts from the genesis hash
ResumeHashGenesis(rows) == GenesisHash

\* SELECT sequence_number, hash ... ORDER BY sequence_number DESC LIMIT 1
LastRow(rows) == SelectAllOrdered(rows)[Len(rows)]

\* this.sequenceCounter = last ? last.sequence_number : 0
ResumeCounter(rows) == IF rows = <<>> THEN 0 ELSE LastRow(rows).sequence_number

\* this.lastHash = last ? last.hash : '0'.repeat(64)
ResumeHash(rows) == IF rows = <<>> THEN GenesisHash ELSE LastRow(rows).hash

\* new AuditTrail(db, logger) over the store as it stands: the process was shut
\* down and booted again.  initSchema() creates the table only if it is missing.
Reopen ==
    /\ Len(reopenLog) < MaxReopens
    /\ sequenceCounter' = ResumeCounter(auditRows)
    /\ lastHash' = ResumeHash(auditRows)
    /\ reopenLog' = Append(reopenLog, [rows |-> Len(auditRows), calls |-> recordCalls])
    /\ UNCHANGED <<otherVars, now, auditRows, recordCalls, recorded, tampered, failedWrites,
                   queueVars, breakerVars, govVars>>

InitAudit ==
    /\ failedWrites = {}
    /\ reopenLog = <<>>
    /\ auditRows = <<>>
    /\ sequenceCounter = 0
    /\ lastHash = GenesisHash
    /\ recordCalls = 0
    /\ recorded = 0
    /\ tampered = <<>>

(***************************************************************************)
(* DaemonLoop: the task queue                                              *)
(***************************************************************************)

Priorities == {"critical", "high", "medium", "low"}

\* Who calls enqueueTask: the gateway's task:submit, a channel message, the
\* admin command task:create, a scheduled job (runJob).
Sources == {"gateway", "channel", "command", "job"}

\* A channel message is always enqueued with medium priority; the other callers
\* pass the priority they were given.
SourcePriorities(source) == IF source = "channel" THEN {"medium"} ELSE Priorities

\* const priorityOrder = { critical: 0, high: 1, medium: 2, low: 3 }
PriorityOrder(p) ==
    CASE p = "critical" -> 0
      [] p = "high" -> 1
      [] p = "medium" -> 2
      [] p = "low" -> 3

\* the mutant of Compare: the comparator with its operands exchanged
CompareReversed(a, b) == PriorityOrder(b.priority) - PriorityOrder(a.priority)

\* the comparator handed to taskQueue.sort
Compare(a, b) == PriorityOrder(a.priority) - PriorityOrder(b.priority)

\* the mutant of InsertStable: x goes before the elements it compares equal to
RECURSIVE InsertBeforeEquals(_, _)
InsertBeforeEquals(sorted, x) ==
    IF sorted = <<>> THEN <<x>>
    ELSE IF Compare(x, Head(sorted)) <= 0 THEN <<x>> \o sorted
    ELSE <<Head(sorted)>> \o InsertBeforeEquals(Tail(sorted), x)

\* Array.prototype.sort is stable: x goes behind every element it does not
\* compare less than.
RECURSIVE InsertStable(_, _)
InsertStable(sorted, x) ==
    IF sorted = <<>> THEN <<x>>
    ELSE IF Compare(x, Head(sorted)) < 0 THEN <<x>> \o sorted
    ELSE <<Head(sorted)>> \o InsertStable(Tail(sorted), x)

RECURSIVE SortQueue(_)
SortQueue(q) ==
    IF q = <<>> THEN <<>>
    ELSE InsertStable(SortQueue(SubSeq(q, 1, Len(q) - 1)), q[Len(q)])

SeqToSet(q) == {q[i] : i \in 1..Len(q)}

\* the mutant of ProcessQueueGuard: the processing flag is not consulted
ProcessQueueGuardNoFlag(busy, q) == Len(q) > 0

\* processQueue(): if (this.processing || this.taskQueue.length === 0) return;
ProcessQueueGuard(busy, q) == ~(busy \/ Len(q) = 0)

\* One pass of the while loop of processQueue() up to its await: sort, shift,
\* and hand the task to orchestrator.executeTask.  q is the queue, nonempty.
StartNext(q) ==
    LET sorted == SortQueue(q)
        task == Head(sorted)
    IN  /\ taskQueue' = Tail(sorted)
        /\ executing' = executing \cup {task}
        /\ startOrder' = Append(startOrder, task)
        /\ waitingAtStart' = Append(waitingAtStart, SeqToSet(Tail(sorted)))

\* enqueueTask(task): push, then processQueue() up to its first await.  The
\* task is the one its caller created, with the next fresh id.
Enqueue(priority) ==
    /\ taskCount < MaxTasks
    /\ taskCount' = taskCount + 1
    /\ LET task == [id |-> taskCount + 1, priority |-> priority]
           q == Append(taskQueue, task)
       IN  IF ProcessQueueGuard(processing, q)
           THEN /\ processing' = TRUE
                /\ activeDrains' = activeDrains + 1
                /\ StartNext(q)
           ELSE /\ taskQueue' = q
                /\ UNCHANGED <<processing, activeDrains, executing, startOrder,
                               waitingAtStart>>

\* enqueueTask(task) called by source
EnqueueTask(source, priority) ==
    /\ Enqueue(priority)
    /\ UNCHANGED <<otherVars, now, auditVars, breakerVars, govVars, resolved, execLog,
                   lastSettle>>

EnqueueCall ==
    \E source \in Sources : \E priority \in SourcePriorities(source) :
        EnqueueTask(source, priority)

\* the success flag logExecution() is called with: true in the try block,
\* false in the catch block
LoggedSuccess(outcome) == outcome /= "throws"

\* the mutant of LogExecution: only the catch block writes a record
LogExecutionInCatchOnly(log, task, outcome) ==
    IF outcome = "throws" THEN Append(log, <<task.id, FALSE>>) ELSE log

\* memory.logExecution({taskId, ..., success}): the try block writes
\* success: true for whatever result executeTask returned, the catch block
\* writes success: false
LogExecution(log, task, outcome) == Append(log, <<task.id, LoggedSuccess(outcome)>>)

\* orchestrator.executeTask(task) settles, and processQueue() goes on from its
\* await: it returns a result ("success" or "failed") or rejects ("throws").
\* logOk = FALSE is a store that rejects memory.logExecution, in the try block
\* and in the catch block alike: the exception leaves processQueue() with
\* processing still set and the promise unresolved.  Otherwise the execution is
\* logged, the promise is resolved, and the loop shifts the next task or ends.
\* A store that memory.close() has closed rejects every write.
TaskSettles(task, outcome, logOk) ==
    /\ task \in executing
    /\ logOk => memoryOpen
    /\ lastSettle' = IF logOk
                     THEN <<[outcome |-> outcome, logged |-> LoggedSuccess(outcome)]>>
                     ELSE lastSettle
    /\ IF logOk
       THEN /\ execLog' = LogExecution(execLog, task, outcome)
            /\ resolved' = resolved \cup {task.id}
            /\ IF Len(taskQueue) > 0
               THEN /\ LET sorted == SortQueue(taskQueue)
                        IN  /\ taskQueue' = Tail(sorted)
                            /\ executing' = (executing \ {task}) \cup {Head(sorted)}
                            /\ startOrder' = Append(startOrder, Head(sorted))
                            /\ waitingAtStart' =
                                   Append(waitingAtStart, SeqToSet(Tail(sorted)))
                    /\ UNCHANGED <<processing, activeDrains>>
               ELSE /\ processing' = FALSE
                    /\ activeDrains' = activeDrains - 1
                    /\ executing' = executing \ {task}
                    /\ UNCHANGED <<taskQueue, startOrder, waitingAtStart>>
       ELSE /\ executing' = executing \ {task}
            /\ activeDrains' = activeDrains - 1
            /\ UNCHANGED <<taskQueue, processing, startOrder, waitingAtStart,
                           resolved, execLog>>
    /\ UNCHANGED <<otherVars, now, auditVars, breakerVars, govVars, taskCount>>

SettleCall ==
    \E task \in executing, outcome \in {"success", "failed", "throws"},
       logOk \in BOOLEAN :
        TaskSettles(task, outcome, logOk)

InitQueue ==
    /\ taskQueue = <<>>
    /\ processing = FALSE
    /\ executing = {}
    /\ activeDrains = 0
    /\ taskCount = 0
    /\ startOrder = <<>>
    /\ waitingAtStart = <<>>
    /\ resolved = {}
    /\ execLog = <<>>
    /\ lastSettle = <<>>

(***************************************************************************)
(* CircuitBreakerRegistry.  Its source file, healing/circuit-breaker, is   *)
(* not among the sources: the operations below follow the design's state   *)
(* machine (closed, open, half_open), the CircuitBreakerState type and the *)
(* registry's tests.                                                       *)
(***************************************************************************)

\* the operation names the registry is called with
Names == {"tool-a", "tool-b"}

\* config.circuitBreakerThreshold, as the registry's tests set it
Threshold == 3

\* config.circuitBreakerCooldownMs, in ticks of the clock
CooldownMs == 2

\* A name the registry has not seen is implicitly closed.  A Date | null field is
\* <<>> for null and <<t>> for a time.
NewBreaker ==
    [known |-> FALSE, failureCount |-> 0, lastFailure |-> <<>>, state |-> "closed",
     openedAt |-> <<>>]

\* now - openedAt >= cooldownMs
CooldownElapsed(b, t) == b.openedAt /= <<>> /\ t - b.openedAt[1] >= CooldownMs

\* the mutant of AfterCanExecute: the query does not move the breaker
AfterCanExecuteNoMove(b, t) == b

\* canExecute(name): the breaker after the query
AfterCanExecute(b, t) ==
    IF b.known /\ b.state = "open" /\ CooldownElapsed(b, t)
    THEN [b EXCEPT !.state = "half_open"]
    ELSE b

\* canExecute(name): the value returned
CanExecuteResult(b, t) == ~(b.known /\ b.state = "open" /\ ~CooldownElapsed(b, t))

\* the mutant of AfterSuccess: the counter is reset only when the breaker closes
AfterSuccessHalfOpenOnly(b) ==
    IF b.state = "half_open"
    THEN [b EXCEPT !.known = TRUE, !.failureCount = 0, !.state = "closed",
                   !.openedAt = <<>>]
    ELSE [b EXCEPT !.known = TRUE]

\* recordSuccess(name): resets failureCount; half_open -> closed
AfterSuccess(b) ==
    IF b.state = "half_open"
    THEN [b EXCEPT !.known = TRUE, !.failureCount = 0, !.state = "closed",
                   !.openedAt = <<>>]
    ELSE [b EXCEPT !.known = TRUE, !.failureCount = 0]

\* the mutant of ThresholdReached: the breaker opens one failure late
ThresholdExceeded(count) == count > Threshold

\* failureCount >= threshold
ThresholdReached(count) == count >= Threshold

\* the mutant of AfterFailure: a failed probe reopens the breaker without
\* restarting the cooldown
AfterFailureKeepsOpenedAt(b, t) ==
    LET count == b.failureCount + 1
        opens == \/ b.state = "closed" /\ ThresholdReached(count)
                 \/ b.state = "half_open"
    IN  [b EXCEPT !.known = TRUE, !.failureCount = count, !.lastFailure = <<t>>,
                  !.state = IF opens THEN "open" ELSE @,
                  !.openedAt = IF opens /\ b.state = "closed" THEN <<t>> ELSE @]

\* recordFailure(name): increments the counter; closed -> open when the
\* threshold is reached; half_open -> open; openedAt := now on opening
AfterFailure(b, t) ==
    LET count == b.failureCount + 1
        opens == \/ b.state = "closed" /\ ThresholdReached(count)
                 \/ b.state = "half_open"
    IN  [b EXCEPT !.known = TRUE, !.failureCount = count, !.lastFailure = <<t>>,
                  !.state = IF opens THEN "open" ELSE @,
                  !.openedAt = IF opens THEN <<t>> ELSE @]

\* the mutant of AfterReset: only the state is reset
AfterResetStateOnly(b) == [b EXCEPT !.known = TRUE, !.state = "closed"]

\* reset(name): unconditionally closed, zero counters
AfterReset(b) ==
    [known |-> TRUE, failureCount |-> 0, lastFailure |-> <<>>, state |-> "closed",
     openedAt |-> <<>>]

\* what lastCall keeps of a call: the breaker as it was, and the time
CallRecord(op, name, result) ==
    [op |-> op, name |-> name, at |-> now, result |-> result,
     preState |-> breakers[name].state, preOpenedAt |-> breakers[name].openedAt,
     preCount |-> breakers[name].failureCount]

CanExecute(name) ==
    /\ breakers' = [breakers EXCEPT ![name] = AfterCanExecute(@, now)]
    /\ lastCall' = CallRecord("canExecute", name, CanExecuteResult(breakers[name], now))
    /\ UNCHANGED <<otherVars, now, auditVars, queueVars, govVars, consecFails, totalFails>>

RecordSuccess(name) ==
    /\ breakers' = [breakers EXCEPT ![name] = AfterSuccess(@)]
    /\ lastCall' = CallRecord("recordSuccess", name, TRUE)
    /\ consecFails' = [consecFails EXCEPT ![name] = 0]
    /\ UNCHANGED <<otherVars, now, auditVars, queueVars, govVars, totalFails>>

RecordFailure(name) ==
    /\ totalFails[name] < MaxFailures
    /\ breakers' = [breakers EXCEPT ![name] = AfterFailure(@, now)]
    /\ lastCall' = CallRecord("recordFailure", name, TRUE)
    /\ consecFails' = [consecFails EXCEPT ![name] = @ + 1]
    /\ totalFails' = [totalFails EXCEPT ![name] = @ + 1]
    /\ UNCHANGED <<otherVars, now, auditVars, queueVars, govVars>>

Reset(name) ==
    /\ breakers' = [breakers EXCEPT ![name] = AfterReset(@)]
    /\ lastCall' = CallRecord("reset", name, TRUE)
    /\ consecFails' = [consecFails EXCEPT ![name] = 0]
    /\ UNCHANGED <<otherVars, now, auditVars, queueVars, govVars, totalFails>>

\* evaluate(): every open breaker whose cooldown has elapsed goes half_open
Evaluate ==
    /\ breakers' = [n \in Names |-> AfterCanExecute(breakers[n], now)]
    /\ lastCall' = [op |-> "evaluate", name |-> "", at |-> now,
                    result |-> {n \in Names : AfterCanExecute(breakers[n], now) /= breakers[n]},
                    preState |-> "", preOpenedAt |-> <<>>, preCount |-> 0]
    /\ UNCHANGED <<otherVars, now, auditVars, queueVars, govVars, consecFails, totalFails>>

InitBreakers ==
    /\ breakers = [n \in Names |-> NewBreaker]
    /\ lastCall = [op |-> "none", name |-> "", at |-> 0, result |-> TRUE,
                   preState |-> "", preOpenedAt |-> <<>>, preCount |-> 0]
    /\ consecFails = [n \in Names |-> 0]
    /\ totalFails = [n \in Names |-> 0]

(***************************************************************************)
(* BoundedAutonomyEngine                                                   *)
(***************************************************************************)

RiskLevels == {"low", "medium", "high", "critical"}
AuthorityLevels == {"auto_approve", "log_only", "require_approval", "require_human"}
ToolNames == {"tool-a"}

\* the ToolDefinitions the engine is asked about: name, requiresApproval, riskLevel
Tools == [name : ToolNames, requiresApproval : BOOLEAN, riskLevel : RiskLevels]

\* A GovernancePolicy.  maxAutoApproveValue?: number is <<>> when it is absent.
Policy(risk, authority, audit, cap) ==
    [riskLevel |-> risk, authority |-> authority, auditRequired |-> audit,
     maxAutoApproveValue |-> cap]

\* the mutant of DefaultPolicies: the low level is audited as well
DefaultPoliciesLowAudited ==
    << Policy("critical", "require_human", TRUE, <<>>),
       Policy("high", "require_approval", TRUE, <<>>),
       Policy("medium", "log_only", TRUE, <<>>),
       Policy("low", "auto_approve", TRUE, <<>>) >>

\* the policies the constructor installs
DefaultPolicies ==
    << Policy("critical", "require_human", TRUE, <<>>),
       Policy("high", "require_approval", TRUE, <<>>),
       Policy("medium", "log_only", TRUE, <<>>),
       Policy("low", "auto_approve", FALSE, <<>>) >>

\* The policy lists setPolicies is called with: the defaults; the defaults with
\* a value threshold at one level (1 stands for the 1000 of the escalation
\* scenario, against estimated values of 1 and 2); a table that auto-approves
\* everything; an empty table.
PoliciesWithCap(risk, cap) ==
    [i \in 1..Len(DefaultPolicies) |->
        IF DefaultPolicies[i].riskLevel = risk
        THEN [DefaultPolicies[i] EXCEPT !.maxAutoApproveValue = <<cap>>]
        ELSE DefaultPolicies[i]]

PermissivePolicies ==
    [i \in 1..Len(DefaultPolicies) |->
        [DefaultPolicies[i] EXCEPT !.authority = "auto_approve"]]

PolicyInputs ==
    {DefaultPolicies, PermissivePolicies, <<>>}
        \cup {PoliciesWithCap(risk, cap) : risk \in {"low", "high"}, cap \in {0, 1}}

EstimatedValues == {1, 2}

\* this.policies.find(p => p.riskLevel === tool.riskLevel): <<>> or <<policy>>
RECURSIVE FindPolicy(_, _, _)
FindPolicy(ps, risk, i) ==
    IF i > Len(ps) THEN <<>>
    ELSE IF ps[i].riskLevel = risk THEN <<ps[i]>>
    ELSE FindPolicy(ps, risk, i + 1)

\* getAuthority(tool)
GetAuthority(tool) ==
    IF overrides[tool.name] /= <<>> THEN overrides[tool.name][1]
    ELSE IF tool.requiresApproval
    THEN (IF tool.riskLevel = "critical" THEN "require_human" ELSE "require_approval")
    ELSE LET policy == FindPolicy(policies, tool.riskLevel, 1)
         IN  IF policy /= <<>> THEN policy[1].authority ELSE "require_approval"

\* the mutant of PushDecision: the oldest entries are the ones kept
PushDecisionKeepOldest(log, entry) ==
    LET pushed == Append(log, entry)
        keep == DecisionLogCap \div 2
    IN  IF Len(pushed) > DecisionLogCap THEN SubSeq(pushed, 1, keep) ELSE pushed

\* recordDecision: push, then keep the log bounded
\* (if (length > 10000) auditLog = auditLog.slice(-5000))
PushDecision(log, entry) ==
    LET pushed == Append(log, entry)
        keep == DecisionLogCap \div 2
    IN  IF Len(pushed) > DecisionLogCap
        THEN SubSeq(pushed, Len(pushed) - keep + 1, Len(pushed))
        ELSE pushed

\* policy?.maxAutoApproveValue && estimatedValue > policy.maxAutoApproveValue:
\* an absent policy, an absent threshold and a threshold of 0 are all falsy
ExceedsThreshold(policy, value) ==
    /\ policy /= <<>>
    /\ policy[1].maxAutoApproveValue /= <<>>
    /\ policy[1].maxAutoApproveValue[1] /= 0
    /\ value > policy[1].maxAutoApproveValue[1]

\* validateValueThreshold(tool, estimatedValue)
ValidateValueThreshold(tool, value) ==
    LET baseAuthority == GetAuthority(tool)
        policy == FindPolicy(policies, tool.riskLevel, 1)
        escalated == IF baseAuthority = "auto_approve" THEN "require_approval"
                     ELSE "require_human"
        entry == [timestamp |-> now, tool |-> tool.name, decision |-> escalated,
                  reason |-> "Value threshold exceeded: $" \o ToString(value)]
        exceeds == ExceedsThreshold(policy, value)
    IN  /\ decisionLog' = IF exceeds THEN PushDecision(decisionLog, entry) ELSE decisionLog
        /\ lastValidate' =
              [called |-> TRUE, risk |-> tool.riskLevel, value |-> value,
               cap |-> IF policy = <<>> THEN <<>> ELSE policy[1].maxAutoApproveValue,
               base |-> baseAuthority,
               result |-> IF exceeds THEN escalated ELSE baseAuthority,
               logBefore |-> decisionLog]
        /\ UNCHANGED <<otherVars, now, auditVars, queueVars, breakerVars, policies, overrides>>

\* setOverride(toolName, authority)
SetOverride(toolName, authority) ==
    /\ overrides' = [overrides EXCEPT ![toolName] = <<authority>>]
    /\ UNCHANGED <<otherVars, now, auditVars, queueVars, breakerVars, policies, decisionLog,
                   lastValidate>>

\* removeOverride(toolName)
RemoveOverride(toolName) ==
    /\ overrides' = [overrides EXCEPT ![toolName] = <<>>]
    /\ UNCHANGED <<otherVars, now, auditVars, queueVars, breakerVars, policies, decisionLog,
                   lastValidate>>

\* setPolicies(policies)
SetPolicies(ps) ==
    /\ policies' = ps
    /\ UNCHANGED <<otherVars, now, auditVars, queueVars, breakerVars, overrides, decisionLog,
                   lastValidate>>

InitGov ==
    /\ policies = DefaultPolicies
    /\ overrides = [n \in ToolNames |-> <<>>]
    /\ decisionLog = <<>>
    /\ lastValidate = [called |-> FALSE, risk |-> "low", value |-> 1, cap |-> <<>>,
                       base |-> "auto_approve", result |-> "auto_approve",
                       logBefore |-> <<>>]

(***************************************************************************)
(* Orchestrator: the task map, executeTask, and the tool_use loop of the  *)
(* two handlers (executeDirect, spawnSubAgent); the admin cancel route     *)
(***************************************************************************)

TaskIds == 1..MaxOrchTasks

\* one task type of the direct path and one of the sub-agent path
TaskTypes == {"custom", "payment_initiate"}

\* routeTask(task): the routing table, restricted to TaskTypes
RouteTask(type) == IF type = "payment_initiate" THEN "payment_ops" ELSE "orchestrator"

\* a slot of the task map before createTask fills it
NoTask ==
    [created |-> FALSE, type |-> "custom", assignedAgent |-> <<>>, startedAt |-> <<>>,
     completedAt |-> <<>>, result |-> <<>>]

\* TaskResult: success and errors (output, tokens and timings are left out)
SuccessResult == [success |-> TRUE, errors |-> <<>>]
FailureResult(error) == [success |-> FALSE, errors |-> <<error>>]

\* the result the cancel route writes
CancelledResult == FailureResult("Cancelled by admin")

\* emitEvent(type, payload): pushed on executionLog, then emitted
EmitEvent(log, type, taskId) == Append(log, <<type, taskId>>)

RECURSIVE EmitEvents(_, _, _)
EmitEvents(log, types, taskId) ==
    IF types = <<>> THEN log
    ELSE EmitEvents(EmitEvent(log, Head(types), taskId), Tail(types), taskId)

\* createTask(type, ...): a fresh task in the map, task:created
CreateTask(type) ==
    /\ \E id \in TaskIds :
          /\ ~tasks[id].created
          /\ \A other \in TaskIds : other < id => tasks[other].created
          /\ tasks' = [tasks EXCEPT ![id] = [NoTask EXCEPT !.created = TRUE, !.type = type]]
          /\ events' = EmitEvent(events, "task:created", id)
    /\ UNCHANGED <<lateVars, daemonVars, now, auditVars, queueVars, breakerVars, govVars, busVars, healVars,
                   handlers, returned, cancelled, lastInvoke>>

\* the mutant of ResultEvent: a failed result is announced as completed
ResultEventAlwaysCompleted(result) == "task:completed"

\* if (result.success) task:completed else task:failed
ResultEvent(result) == IF result.success THEN "task:completed" ELSE "task:failed"

\* What a handler hands to executeTask: <<result>> when it returns, <<>> when
\* its exception propagates.  executeDirect has no try block; spawnSubAgent
\* catches and returns a failed result.
HandlerResult(role, outcome) ==
    IF outcome = "returns" THEN <<SuccessResult>>
    ELSE IF role = "orchestrator" THEN <<>>
    ELSE <<FailureResult("handler error")>>

\* the events a handler emits when it ends
HandlerEndEvents(role, outcome) ==
    IF role = "orchestrator" THEN <<>>
    ELSE IF outcome = "returns" THEN <<"agent:terminated">>
    ELSE <<"agent:error">>

\* executeTask after its handler: the try block's tail, or the catch block
TaskResultOf(handed) == IF handed /= <<>> THEN handed[1] ELSE FailureResult("handler threw")

CompletionEvent(handed) ==
    IF handed /= <<>> THEN ResultEvent(handed[1]) ELSE "task:failed"

\* task and log after executeTask's handler ended with `outcome`
Completed(task, t, outcome) ==
    LET handed == HandlerResult(task.assignedAgent[1], outcome)
    IN  [task EXCEPT !.completedAt = <<t>>, !.result = <<TaskResultOf(handed)>>]

EventsAtEnd(log, id, role, outcome) ==
    EmitEvent(EmitEvents(log, HandlerEndEvents(role, outcome), id),
              CompletionEvent(HandlerResult(role, outcome)), id)

\* executeTask(task) up to the handler's first await.  payloadOk = FALSE is a
\* payload JSON.stringify rejects: the handler throws before it awaits.
ExecuteTask(id, payloadOk) ==
    LET role == RouteTask(tasks[id].type)
        started == [tasks[id] EXCEPT !.startedAt = <<now>>, !.assignedAgent = <<role>>]
        spawn == IF role = "orchestrator" THEN <<>> ELSE <<"agent:spawned">>
        log == EmitEvents(EmitEvent(events, "task:started", id), spawn, id)
    IN  /\ tasks[id].created
        /\ tasks[id].startedAt = <<>>
        /\ IF payloadOk
           THEN /\ tasks' = [tasks EXCEPT ![id] = started]
                /\ events' = log
                /\ handlers' = handlers \cup {id}
                /\ UNCHANGED returned
           ELSE /\ tasks' = [tasks EXCEPT ![id] = Completed(started, now, "throws")]
                /\ events' = EventsAtEnd(log, id, role, "throws")
                /\ returned' = [returned EXCEPT
                                  ![id] = <<TaskResultOf(HandlerResult(role, "throws"))>>]
                /\ UNCHANGED handlers
        /\ UNCHANGED <<lateVars, daemonVars, now, auditVars, queueVars, breakerVars, govVars, busVars, healVars,
                       cancelled, lastInvoke>>

\* the handler of task id ends and executeTask runs to its return
EndHandler(id, outcome) ==
    LET role == tasks[id].assignedAgent[1]
    IN  /\ tasks' = [tasks EXCEPT ![id] = Completed(@, now, outcome)]
        /\ events' = EventsAtEnd(events, id, role, outcome)
        /\ returned' = [returned EXCEPT
                          ![id] = <<TaskResultOf(HandlerResult(role, outcome))>>]
        /\ handlers' = handlers \ {id}

HandlerSettles(id, outcome) ==
    /\ id \in handlers
    /\ EndHandler(id, outcome)
    /\ UNCHANGED <<lateVars, daemonVars, now, auditVars, queueVars, breakerVars, govVars, busVars, healVars,
                   cancelled, lastInvoke>>

\* POST /admin/tasks/:id/cancel: 404 for an unknown task, 400 for one that has
\* completedAt; otherwise the task is marked, and nothing else is touched
CancelTask(id) ==
    /\ tasks[id].created
    /\ tasks[id].completedAt = <<>>
    /\ tasks' = [tasks EXCEPT ![id] = [@ EXCEPT !.completedAt = <<now>>,
                                                !.result = <<CancelledResult>>]]
    /\ cancelled' = [cancelled EXCEPT
                       ![id] = <<[completedAt |-> now, running |-> id \in handlers]>>]
    /\ UNCHANGED <<lateVars, daemonVars, now, auditVars, queueVars, breakerVars, govVars, busVars, healVars,
                   handlers, events, returned, lastInvoke>>

\* requiresAudit(tool)
RequiresAudit(tool) ==
    IF tool.requiresApproval THEN TRUE
    ELSE LET policy == FindPolicy(policies, tool.riskLevel, 1)
         IN  IF policy /= <<>> THEN policy[1].auditRequired ELSE TRUE

\* canAutoExecute(tool)
CanAutoExecute(tool) == GetAuthority(tool) \in {"auto_approve", "log_only"}

ToolOutcomes == {"success", "failure", "throws"}

\* the tool:result events in the log
RECURSIVE CountEvents(_, _)
CountEvents(log, type) ==
    IF log = <<>> THEN 0
    ELSE (IF Head(log)[1] = type THEN 1 ELSE 0) + CountEvents(Tail(log), type)

\* A tool_use block for a registered tool, in the loop of either handler:
\*     const result = await tool.execute(block.input, ctx);
\*     this.emitEvent('tool:result', {...});
\* The governance engine, the breaker registry and the audit trail are not
\* consulted.  A tool that throws ends the handler.
InvokeTool(id, tool, outcome) ==
    /\ id \in handlers
    /\ CountEvents(events, "tool:result") < MaxInvocations
    /\ UNCHANGED <<lateVars, daemonVars, now, auditVars, queueVars, breakerVars, govVars, busVars, healVars,
                   cancelled>>
    /\ IF outcome = "throws"
       THEN EndHandler(id, "throws")
       ELSE /\ events' = EmitEvent(events, "tool:result", id)
            /\ UNCHANGED <<tasks, handlers, returned>>
    /\ lastInvoke' =
          [called |-> TRUE, tool |-> tool, outcome |-> outcome,
           agentId |-> tasks[id].assignedAgent[1],
           executed |-> TRUE,
           authority |-> GetAuthority(tool),
           auditRequired |-> RequiresAudit(tool),
           breakerState |-> breakers[tool.name].state,
           auditEntries |-> SubSeq(auditRows', Len(auditRows) + 1, Len(auditRows')),
           registryCalls |-> IF lastCall' = lastCall THEN <<>> ELSE <<lastCall'.op>>]

\* the tool names of the model: one the payment_ops role lists, one it does not
RegistryNames == {"mpesa_stk_push", "mono_initiate_debit"}

\* two ToolDefinitions that can be registered under one name
ToolImpls == {"first", "second"}

\* AGENT_CONFIGS[role].tools, restricted to RegistryNames
AgentTools(role) == IF role = "payment_ops" THEN {"mpesa_stk_push"} ELSE {}

\* this.tools.set(tool.name, tool)
RegistrySet(registry, name, impl) == [registry EXCEPT ![name] = <<impl>>]

\* registerTool(tool): the map entry is set, whatever was there, and
\* tool:invoked is emitted with action 'registered'
RegisterTool(name, impl) ==
    /\ Len(events) < MaxRegisterEvents
    /\ toolRegistry' = RegistrySet(toolRegistry, name, impl)
    /\ firstBound' = IF firstBound[name] = <<>>
                     THEN [firstBound EXCEPT ![name] = <<impl>>]
                     ELSE firstBound
    /\ events' = EmitEvent(events, "tool:invoked", 0)
    /\ UNCHANGED <<daemonVars, now, auditVars, queueVars, breakerVars, govVars, busVars,
                   healVars, tasks, handlers, returned, cancelled, lastInvoke,
                   lastToolUse, shutdown, gatewayVars, forgeVars>>

\* the names getAnthropicToolsForAgent(config.tools) offers to the model
OfferedTools(role) == {n \in AgentTools(role) : toolRegistry[n] /= <<>>}

\* createContext(task, agentId).tools: this.tools, the whole registry
ContextTools == {n \in RegistryNames : toolRegistry[n] /= <<>>}

\* A tool_use block naming `name` in the response the model backend gave to
\* the sub-agent of task id:
\*     const tool = this.tools.get(block.name);
\*     if (tool) { const ctx = this.createContext(task, agentId); ... }
\* The name is looked up in the registry, not in the role's list; the tool
\* found is executed (it returns here) and tool:result is emitted.
ToolUse(id, name) ==
    LET role == tasks[id].assignedAgent[1]
        found == toolRegistry[name] /= <<>>
    IN  /\ id \in handlers
        /\ role /= "orchestrator"
        /\ found => CountEvents(events, "tool:result") < MaxInvocations
        /\ events' = IF found THEN EmitEvent(events, "tool:result", id) ELSE events
        /\ lastToolUse' = [called |-> TRUE, role |-> role, name |-> name,
                           offered |-> OfferedTools(role), executed |-> found,
                           ctxTools |-> IF found THEN ContextTools ELSE {}]
        /\ UNCHANGED <<daemonVars, now, auditVars, queueVars, breakerVars, govVars, busVars,
                       healVars, tasks, handlers, returned, cancelled, lastInvoke,
                       toolRegistry, firstBound, shutdown, gatewayVars, forgeVars>>

InitTools ==
    /\ toolRegistry = [n \in RegistryNames |-> <<>>]
    /\ firstBound = [n \in RegistryNames |-> <<>>]
    /\ lastToolUse = [called |-> FALSE, role |-> "payment_ops", name |-> "mpesa_stk_push",
                      offered |-> {}, executed |-> FALSE, ctxTools |-> {}]

InitOrch ==
    /\ tasks = [id \in TaskIds |-> NoTask]
    /\ handlers = {}
    /\ events = <<>>
    /\ returned = [id \in TaskIds |-> <<>>]
    /\ cancelled = [id \in TaskIds |-> <<>>]
    /\ lastInvoke =
          [called |-> FALSE, agentId |-> "orchestrator",
           tool |-> [name |-> "tool-a", requiresApproval |-> FALSE, riskLevel |-> "low"],
           outcome |-> "success", executed |-> FALSE, authority |-> "auto_approve",
           auditRequired |-> FALSE, breakerState |-> "closed", auditEntries |-> <<>>,
           registryCalls |-> <<>>]

(***************************************************************************)
(* A2AProtocol: the message bus                                            *)
(***************************************************************************)

BusAgents == {"atlas", "hippocrates", "mercury"}
Ttls == {1}
Limits == {DefaultLimit}
\* the agents that send and broadcast, and those that answer
Senders == {"hippocrates"}
\* the agents whose queues the boot sequence registers
BootAgents == {"atlas", "mercury"}
Responders == {"atlas"}

\* an A2AMessage; uuid() is the creation count, the payload is left out
Message(id, from, to, type, t, ttl) ==
    [id |-> id, fromAgent |-> from, toAgent |-> to, type |-> type, timestamp |-> t,
     ttl |-> ttl]

\* now - m.timestamp.getTime() >= m.ttl
Expired(m, t) == t - m.timestamp >= m.ttl

SeqIds(ms) == {ms[i].id : i \in 1..Len(ms)}

\* slice(0, limit)
Slice(ms, limit) == SubSeq(ms, 1, IF Len(ms) < limit THEN Len(ms) ELSE limit)

\* the ids in the acknowledged set
AckedIds == {acknowledged[i] : i \in 1..Len(acknowledged)}

\* Set.prototype.add on the insertion-ordered set
SetAdd(acks, id) ==
    IF \E i \in 1..Len(acks) : acks[i] = id THEN acks ELSE Append(acks, id)

RECURSIVE SetAddAll(_, _)
SetAddAll(acks, ms) ==
    IF ms = <<>> THEN acks ELSE SetAddAll(SetAdd(acks, Head(ms).id), Tail(ms))

\* receive(agentId, limit): unacknowledged, unexpired, the first `limit`
ReceiveResult(agentId, limit) ==
    LET Unacked(m) == m.id \notin AckedIds
        Live(m) == now - m.timestamp < m.ttl
    IN  Slice(SelectSeq(SelectSeq(mailboxes[agentId], Unacked), Live), limit)

\* what lastReceive keeps of a call
ReceiveRecord(op, agentId, limit) ==
    [op |-> op, agent |-> agentId, limit |-> limit, at |-> now,
     result |-> ReceiveResult(agentId, limit), held |-> Len(mailboxes[agentId]),
     consumedBefore |-> consumedBy, placedBefore |-> msgCount,
     changed |-> op = "receive" /\ <<mailboxes', registered', acknowledged'>>
                                     /= <<mailboxes, registered, acknowledged>>]

\* send(fromAgent, toAgent, payload, ttl)
Send(from, to, ttl) ==
    LET msg == Message(msgCount + 1, from, to, "request", now, ttl)
    IN  /\ msgCount < MaxMessages
        /\ msgCount' = msgCount + 1
        /\ registered' = registered \cup {to}
        /\ mailboxes' = [mailboxes EXCEPT ![to] = Append(@, msg)]
        /\ placed' = placed \cup {[msg |-> msg, boxes |-> {to}, known |-> registered]}
        /\ UNCHANGED <<lateVars, daemonVars, now, auditVars, queueVars, breakerVars, govVars, orchVars, healVars,
                       acknowledged, consumedBy, ackedDirectly, expiredEvents, lastReceive>>

\* the message with this id that the scan of the queues finds, <<>> if none
FindMessage(id) ==
    LET found == {m \in UNION {{mailboxes[a][i] : i \in 1..Len(mailboxes[a])} :
                                a \in registered} : m.id = id}
    IN  IF found = {} THEN <<>> ELSE <<CHOOSE m \in found : TRUE>>

\* respond(originalMsgId, fromAgent, payload, ttl); null when the original is
\* in no queue
Respond(originalMsgId, from, ttl) ==
    LET original == FindMessage(originalMsgId)
        to == original[1].fromAgent
        msg == Message(msgCount + 1, from, to, "response", now, ttl)
    IN  /\ msgCount < MaxMessages
        /\ original /= <<>>
        /\ msgCount' = msgCount + 1
        /\ registered' = registered \cup {to}
        /\ mailboxes' = [mailboxes EXCEPT ![to] = Append(@, msg)]
        /\ acknowledged' = SetAdd(acknowledged, originalMsgId)
        /\ ackedDirectly' = ackedDirectly \cup {originalMsgId}
        /\ placed' = placed \cup {[msg |-> msg, boxes |-> {to}, known |-> registered]}
        /\ UNCHANGED <<lateVars, daemonVars, now, auditVars, queueVars, breakerVars, govVars, orchVars, healVars,
                       consumedBy, expiredEvents, lastReceive>>

\* broadcast(fromAgent, payload, ttl): the one message object goes into every
\* queue but the sender's
Broadcast(from, ttl) ==
    LET msg == Message(msgCount + 1, from, "*", "broadcast", now, ttl)
        boxes == registered \ {from}
    IN  /\ msgCount < MaxMessages
        /\ msgCount' = msgCount + 1
        /\ mailboxes' = [a \in BusAgents |->
                            IF a \in boxes THEN Append(mailboxes[a], msg) ELSE mailboxes[a]]
        /\ placed' = placed \cup {[msg |-> msg, boxes |-> boxes, known |-> registered]}
        /\ UNCHANGED <<lateVars, daemonVars, now, auditVars, queueVars, breakerVars, govVars, orchVars, healVars,
                       registered, acknowledged, consumedBy, ackedDirectly, expiredEvents,
                       lastReceive>>

\* receive(agentId, limit)
Receive(agentId, limit) ==
    /\ UNCHANGED <<lateVars, daemonVars, now, auditVars, queueVars, breakerVars, govVars, orchVars, healVars,
                   mailboxes, registered, acknowledged, msgCount, placed, consumedBy,
                   ackedDirectly, expiredEvents>>
    /\ lastReceive' = ReceiveRecord("receive", agentId, limit)

\* consume(agentId, limit): receive, then acknowledge every message returned
Consume(agentId, limit) ==
    LET messages == ReceiveResult(agentId, limit)
    IN  /\ lastReceive' = ReceiveRecord("consume", agentId, limit)
        /\ acknowledged' = SetAddAll(acknowledged, messages)
        /\ consumedBy' = [consumedBy EXCEPT ![agentId] = @ \cup SeqIds(messages)]
        /\ UNCHANGED <<lateVars, daemonVars, now, auditVars, queueVars, breakerVars, govVars, orchVars, healVars,
                       mailboxes, registered, msgCount, placed, ackedDirectly,
                       expiredEvents>>

\* acknowledge(msgId)
Acknowledge(msgId) ==
    /\ msgId \in 1..msgCount
    /\ acknowledged' = SetAdd(acknowledged, msgId)
    /\ ackedDirectly' = ackedDirectly \cup {msgId}
    /\ UNCHANGED <<lateVars, daemonVars, now, auditVars, queueVars, breakerVars, govVars, orchVars, healVars,
                   mailboxes, registered, msgCount, placed, consumedBy, expiredEvents,
                   lastReceive>>

\* registerAgent(agentId)
RegisterAgent(agentId) ==
    /\ registered' = registered \cup {agentId}
    /\ UNCHANGED <<lateVars, daemonVars, now, auditVars, queueVars, breakerVars, govVars, orchVars, healVars,
                   mailboxes, acknowledged, msgCount, placed, consumedBy, ackedDirectly,
                   expiredEvents, lastReceive>>

\* the number of queue entries with this id that the sweep drops
Dropped(id) ==
    Cardinality({<<a, i>> \in BusAgents \X (1..MaxMessages) :
                    /\ a \in registered
                    /\ i <= Len(mailboxes[a])
                    /\ mailboxes[a][i].id = id
                    /\ Expired(mailboxes[a][i], now)})

\* arr.slice(-keep) of the acknowledged set when it has outgrown the cap
Pruned(acks) ==
    LET keep == (AckCap + 1) \div 2
    IN  IF Len(acks) > AckCap THEN SubSeq(acks, Len(acks) - keep + 1, Len(acks)) ELSE acks

\* purgeExpired(), run by the 60 s timer: every queue keeps its unexpired
\* messages and a2a:expired is emitted for every entry dropped; then the
\* acknowledged set is pruned
PurgeExpired ==
    LET Active(m) == ~Expired(m, now)
    IN  /\ mailboxes' = [a \in BusAgents |->
                            IF a \in registered THEN SelectSeq(mailboxes[a], Active)
                            ELSE mailboxes[a]]
        /\ expiredEvents' = [id \in 1..MaxMessages |-> expiredEvents[id] + Dropped(id)]
        /\ acknowledged' = Pruned(acknowledged)
        /\ UNCHANGED <<lateVars, daemonVars, now, auditVars, queueVars, breakerVars, govVars, orchVars, healVars,
                       registered, msgCount, placed, consumedBy, ackedDirectly,
                       lastReceive>>

InitBus ==
    /\ mailboxes = [a \in BusAgents |-> <<>>]
    /\ registered = BootAgents
    /\ acknowledged = <<>>
    /\ msgCount = 0
    /\ placed = {}
    /\ consumedBy = [a \in BusAgents |-> {}]
    /\ ackedDirectly = {}
    /\ expiredEvents = [id \in 1..MaxMessages |-> 0]
    /\ lastReceive = [op |-> "none", agent |-> "atlas", limit |-> DefaultLimit, at |-> 0,
                      result |-> <<>>, held |-> 0,
                      consumedBefore |-> [a \in BusAgents |-> {}], placedBefore |-> 0,
                      changed |-> FALSE]

(***************************************************************************)
(* SelfHealingEngine: runHealthCheck and attemptRecovery                   *)
(***************************************************************************)

Components == {"process", "memory_pressure", "event_loop", "database", "api"}
Statuses == {"healthy", "degraded", "unhealthy"}

\* the results of one run of the five probes: component -> status
HealthReports == [Components -> Statuses]

\* if (this.consecutiveUnhealthy >= 3)
RecoveryThreshold == 3

\* consecutiveUnhealthy >= 3
RecoveryDue(count) == count >= RecoveryThreshold

Unhealthy(report) == {c \in Components : report[c] = "unhealthy"}

\* attemptRecovery(results): `recovered` is set only by a forced garbage
\* collection, that is when global.gc exists and the process or the
\* memory_pressure probe is unhealthy
Recovered(report, gcAvailable) ==
    gcAvailable /\ Unhealthy(report) \cap {"process", "memory_pressure"} /= {}

\* runHealthCheck(), with the attemptRecovery() it awaits
RunHealthCheck(report, gcAvailable) ==
    LET unhealthy == Cardinality(Unhealthy(report))
        count == consecutiveUnhealthy + 1
        invoked == unhealthy > 0 /\ RecoveryDue(count)
        recovered == invoked /\ Recovered(report, gcAvailable)
    IN  /\ healthRuns < MaxHealthRuns
        /\ healthRuns' = healthRuns + 1
        /\ consecutiveUnhealthy' = IF unhealthy > 0 /\ ~recovered THEN count ELSE 0
        /\ lastHealthReport' = <<report>>
        /\ unhealthyStreak' = IF unhealthy > 0 THEN unhealthyStreak + 1 ELSE 0
        /\ lastRun' = [called |-> TRUE, unhealthy |-> unhealthy,
                       streak |-> IF unhealthy > 0 THEN unhealthyStreak + 1 ELSE 0,
                       recoveryCalls |-> IF invoked THEN 1 ELSE 0,
                       recoveryEvents |-> IF recovered THEN 1 ELSE 0]
        /\ UNCHANGED <<lateVars, daemonVars, now, auditVars, queueVars, breakerVars, govVars, orchVars, busVars>>

InitHeal ==
    /\ consecutiveUnhealthy = 0
    /\ lastHealthReport = <<>>
    /\ unhealthyStreak = 0
    /\ healthRuns = 0
    /\ lastRun = [called |-> FALSE, unhealthy |-> 0, streak |-> 0, recoveryCalls |-> 0,
                  recoveryEvents |-> 0]

(***************************************************************************)
(* DaemonLoop: start(), stop(), tick() and runJob().  An async method is   *)
(* one action up to its first await and one action from there on.  The     *)
(* events and broadcasts the methods emit and the heartbeat of every sixth *)
(* tick are left out; no job is toggled off.                               *)
(***************************************************************************)

\* two of the jobs registerDefaultJobs() adds, in the order of scheduledJobs
JobOrder == <<"Self-Evaluation Cycle", "EHR Sync Pulse">>

JobIds == {JobOrder[i] : i \in 1..Len(JobOrder)}

JobIndex(id) == CHOOSE i \in 1..Len(JobOrder) : JobOrder[i] = id

\* the ScheduledJob registered under the name
Job(id) ==
    IF id = "Self-Evaluation Cycle"
    THEN [taskType |-> "self_evaluation", priority |-> "low", action |-> "none"]
    ELSE [taskType |-> "ehr_sync", priority |-> "medium", action |-> "none"]

\* job.intervalMs, in ticks of the clock
IntervalMs == 1

\* the jobs runJob() handles itself and returns from: memory consolidation,
\* self-evaluation, the healing jobs, introspection
RunsDirectly(job) ==
    \/ job.action = "consolidate_memory"
    \/ job.taskType = "self_evaluation"
    \/ job.action \in {"health_check", "circuit_breaker_eval", "dependency_audit"}
    \/ job.action = "introspection"

DirectJobs(S) == {id \in S : RunsDirectly(Job(id))}

QueuedJobs(S) == S \ DirectJobs(S)

\* runJob(id) for each job of S, one after the other, each up to its await:
\* lastRun and nextRun are set; a job handled directly starts its work, any
\* other job creates a task and calls enqueueTask.  (At most one job of
\* JobOrder enqueues.)
RunJobs(S, source) ==
    /\ runCount + Cardinality(S) <= MaxJobRuns
    /\ runCount' = runCount + Cardinality(S)
    /\ nextRun' = [id \in JobIds |-> IF id \in S THEN now + IntervalMs ELSE nextRun[id]]
    /\ directWork' = [id \in JobIds |->
                         directWork[id] + (IF id \in DirectJobs(S) THEN 1 ELSE 0)]
    /\ IF QueuedJobs(S) = {}
       THEN UNCHANGED <<taskQueue, processing, executing, activeDrains, taskCount,
                        startOrder, waitingAtStart, jobTasks>>
       ELSE LET id == CHOOSE j \in QueuedJobs(S) : TRUE
            IN  /\ Enqueue(Job(id).priority)
                /\ jobTasks' = [jobTasks EXCEPT ![id] = @ \cup {taskCount + 1}]
    /\ lastFire' = IF S = {} THEN lastFire
                   ELSE [called |-> TRUE, source |-> source, busy |-> processing,
                         direct |-> DirectJobs(S),
                         startedTask |-> executing' /= executing]
    /\ UNCHANGED <<resolved, execLog, lastSettle>>

\* tick(): tickCount++, then runJob for every job that is due
TickBody ==
    /\ tickCount' = tickCount + 1
    /\ RunJobs({id \in JobIds : nextRun[id] <= now}, "tick")

\* start() up to await this.gateway.start().  A start() that finds running
\* set returns at once.
Start ==
    /\ ~running
    /\ startCalls < MaxStartCalls
    /\ startCalls' = startCalls + 1
    /\ running' = TRUE
    /\ startsAwaiting' = startsAwaiting + 1
    /\ stopsAwaiting' = [i \in 1..Len(stopsAwaiting) |-> TRUE]
    /\ quiesced' = FALSE
    /\ UNCHANGED <<lateVars, memoryOpen, inFlightAtStop, timerVars, jobVars, tickCount, now,
                   auditVars, queueVars, breakerVars, govVars, orchVars, busVars,
                   healVars>>

\* start() from its await on: the main loop interval, one interval per job,
\* and the initial tick
StartResumes ==
    /\ startsAwaiting > 0
    /\ startsAwaiting' = startsAwaiting - 1
    /\ mainLoopTimer' = <<timerCount + 1>>
    /\ jobTimers' = [id \in JobIds |-> <<timerCount + 1 + JobIndex(id)>>]
    /\ liveTimers' = liveTimers \cup {[h |-> timerCount + 1, fires |-> "tick"]}
                        \cup {[h |-> timerCount + 1 + JobIndex(id), fires |-> id] :
                                id \in JobIds}
    /\ timerCount' = timerCount + 1 + Len(JobOrder)
    /\ TickBody
    /\ UNCHANGED <<lateVars, running, startCalls, stopsAwaiting, memoryOpen, quiesced,
                   inFlightAtStop, now, auditVars, breakerVars, govVars, orchVars,
                   busVars, healVars>>

\* stop() up to its first await: the intervals the fields refer to are
\* cleared.  A stop() that finds running unset returns at once.
StopBegins ==
    /\ running
    /\ running' = FALSE
    /\ liveTimers' = {t \in liveTimers :
                         /\ mainLoopTimer /= <<t.h>>
                         /\ \A id \in JobIds : jobTimers[id] /= <<t.h>>}
    /\ jobTimers' = [id \in JobIds |-> <<>>]
    /\ stopsAwaiting' = Append(stopsAwaiting, FALSE)
    /\ inFlightAtStop' = inFlightAtStop \cup {task.id : task \in executing}
    /\ UNCHANGED <<startCalls, startsAwaiting, memoryOpen, quiesced, timerCount,
                   mainLoopTimer, jobVars, tickCount>>

\* stop() called on its own
Stop ==
    /\ StopBegins
    /\ UNCHANGED <<lateVars, now, auditVars, queueVars, breakerVars, govVars, orchVars,
                   busVars, healVars>>

\* stop() from await this.gateway.stop() on: this.memory.close()
StopEnds ==
    /\ stopsAwaiting /= <<>>
    /\ stopsAwaiting' = Tail(stopsAwaiting)
    /\ memoryOpen' = FALSE
    /\ quiesced' = IF Head(stopsAwaiting) THEN quiesced ELSE TRUE
    /\ UNCHANGED <<running, startCalls, startsAwaiting, inFlightAtStop, timerVars,
                   jobVars, tickCount>>

\* the stop() of a caller that does nothing else meanwhile
StopResumes ==
    /\ StopEnds
    /\ UNCHANGED <<lateVars, now, auditVars, queueVars, breakerVars, govVars, orchVars,
                   busVars, healVars>>

\* the main loop interval fires: () => this.tick()
TimerTick ==
    /\ \E t \in liveTimers : t.fires = "tick"
    /\ tickCount < MaxTicks
    /\ TickBody
    /\ UNCHANGED <<lateVars, lifeVars, timerVars, now, auditVars, breakerVars, govVars, orchVars,
                   busVars, healVars>>

\* a job's interval fires: () => this.runJob(id)
JobTimerFires(id) ==
    /\ \E t \in liveTimers : t.fires = id
    /\ RunJobs({id}, "interval")
    /\ UNCHANGED <<lateVars, lifeVars, timerVars, tickCount, now, auditVars, breakerVars, govVars,
                   orchVars, busVars, healVars>>

\* the admin route POST jobs/:id/run: await deps.daemon.runJob(id)
ManualRun(id) ==
    /\ RunJobs({id}, "manual")
    /\ UNCHANGED <<lateVars, lifeVars, timerVars, tickCount, now, auditVars, breakerVars, govVars,
                   orchVars, busVars, healVars>>

\* the work a runJob() invocation awaits settles, and the invocation returns
DirectWorkEnds(id) ==
    /\ directWork[id] > 0
    /\ directWork' = [directWork EXCEPT ![id] = @ - 1]
    /\ UNCHANGED <<lateVars, lifeVars, timerVars, tickCount, nextRun, jobTasks, runCount, lastFire,
                   now, auditVars, queueVars, breakerVars, govVars, orchVars, busVars,
                   healVars>>

\* addJob(): nextRun = now + intervalMs
InitDaemon ==
    /\ running = FALSE
    /\ startCalls = 0
    /\ startsAwaiting = 0
    /\ stopsAwaiting = <<>>
    /\ timerCount = 0
    /\ liveTimers = {}
    /\ mainLoopTimer = <<>>
    /\ jobTimers = [id \in JobIds |-> <<>>]
    /\ tickCount = 0
    /\ nextRun = [id \in JobIds |-> IntervalMs]
    /\ directWork = [id \in JobIds |-> 0]
    /\ jobTasks = [id \in JobIds |-> {}]
    /\ runCount = 0
    /\ memoryOpen = TRUE
    /\ quiesced = FALSE
    /\ inFlightAtStop = {}
    /\ lastFire = [called |-> FALSE, source |-> "none", busy |-> FALSE, direct |-> {},
                   startedTask |-> FALSE]

(***************************************************************************)
(* GatewayServer: the HTTP routes behind the auth middleware, and the      *)
(* WebSocket clients with handleMessage                                    *)
(***************************************************************************)

ClientIds == 1..MaxClients

\* CONFIG.gateway.secret, by its default
GatewaySecret == "doctarx-agents-local"

\* what a caller sends as x-gateway-secret or msg.auth.token; "" is none
Tokens == {GatewaySecret, "guess", ""}

\* the routes of setupHTTPRoutes() that are told apart here
HttpPaths == {"/health", "/api/task", "/api/state", "/api/self-eval", "/api/messages"}

\* the event a route emits on the gateway once the middleware let the request
\* through; bodyOk = FALSE is a body TaskSchema.parse rejects
RouteEmits(path, bodyOk) ==
    IF path = "/api/task" THEN (IF bodyOk THEN <<"task:submit">> ELSE <<>>)
    ELSE IF path = "/api/state" THEN <<"state:request">>
    ELSE IF path = "/api/self-eval" THEN <<"self-eval:trigger">>
    ELSE <<>>

\* the auth middleware: next() unless
\*     token !== CONFIG.gateway.secret && req.path !== '/health'
Authorized(path, token) == ~(token /= GatewaySecret /\ path /= "/health")

\* an HTTP request: 401 from the middleware, or the route's handler.  POST
\* /api/task broadcasts task:created to every client.
HttpRequest(path, token, bodyOk) ==
    LET passed == Authorized(path, token)
        emits == IF passed THEN RouteEmits(path, bodyOk) ELSE <<>>
    IN  /\ lastInbound' = [called |-> TRUE, transport |-> "http", target |-> path,
                           carried |-> token = GatewaySecret,
                           status |-> IF ~passed THEN 401
                                      ELSE IF path = "/api/task" /\ ~bodyOk THEN 400
                                      ELSE 200,
                           emitted |-> emits,
                           sentTo |-> IF emits = <<"task:submit">> THEN clients ELSE {}]
        /\ UNCHANGED <<now, auditVars, queueVars, breakerVars, govVars, orchVars, busVars,
                       healVars, daemonVars, toolVars, shutdown, forgeVars, clients,
                       messageLog>>

\* wss.on('connection'): the client is added with role observer; no secret
\* is asked for
WsConnect(c) ==
    /\ c \notin clients
    /\ clients' = clients \cup {c}
    /\ UNCHANGED <<now, auditVars, queueVars, breakerVars, govVars, orchVars, busVars,
                   healVars, daemonVars, toolVars, shutdown, forgeVars, messageLog,
                   lastInbound>>

\* ws.on('close')
WsClose(c) ==
    /\ c \in clients
    /\ clients' = clients \ {c}
    /\ UNCHANGED <<now, auditVars, queueVars, breakerVars, govVars, orchVars, busVars,
                   healVars, daemonVars, toolVars, shutdown, forgeVars, messageLog,
                   lastInbound>>

\* messageLog.push(msg), cut to its newer half beyond the cap
PushMessage(n) == IF n + 1 > MessageLogCap THEN MessageLogCap \div 2 ELSE n + 1

\* ws.on('message') of client c.  parseOk = FALSE is a frame JSON.parse
\* rejects.  handleMessage() compares msg.auth.token with the secret for
\* type 'command' only; a query is emitted and an event is sent to the other
\* clients whatever the message carries.
WsMessage(c, type, token, parseOk) ==
    LET refused == type = "command" /\ token /= GatewaySecret
        acts == parseOk /\ ~refused
    IN  /\ c \in clients
        /\ messageLog' = IF parseOk THEN PushMessage(messageLog) ELSE messageLog
        /\ lastInbound' = [called |-> TRUE, transport |-> "ws", target |-> type,
                           carried |-> token = GatewaySecret,
                           status |-> IF acts THEN 200 ELSE 401,
                           emitted |-> IF acts /\ type = "command" THEN <<"gateway:command">>
                                       ELSE IF acts /\ type = "query" THEN <<"gateway:query">>
                                       ELSE <<>>,
                           sentTo |-> IF acts /\ type = "event" THEN clients \ {c} ELSE {}]
        /\ UNCHANGED <<now, auditVars, queueVars, breakerVars, govVars, orchVars, busVars,
                       healVars, daemonVars, toolVars, shutdown, forgeVars, clients>>

InitGateway ==
    /\ clients = {}
    /\ messageLog = 0
    /\ lastInbound = [called |-> FALSE, transport |-> "http", target |-> "/health",
                      carried |-> FALSE, status |-> 200, emitted |-> <<>>, sentTo |-> {}]

(***************************************************************************)
(* TokenForge: tier selection and the fallback of execute()                *)
(***************************************************************************)

\* analyzeComplexity() returns 0..10; the scores around the two thresholds
Scores == {0, ThresholdHaiku, ThresholdHaiku + 1, ThresholdSonnet, ThresholdSonnet + 1, 10}

\* request.requiredCapability; "none" is a request without one
Capabilities == {"none", "basic", "reasoning", "complex"}

\* request.cacheKey; "" is a request without one
CacheKeys == {"", "k"}

\* selectTier(complexityScore, requiredCapability)
SelectTier(complexityScore, requiredCapability) ==
    IF requiredCapability = "complex" THEN "opus"
    ELSE IF requiredCapability = "basic" THEN "haiku"
    ELSE IF complexityScore <= ThresholdHaiku THEN "haiku"
    ELSE IF complexityScore <= ThresholdSonnet THEN "sonnet"
    ELSE "opus"

\* execute(request) up to its await of the backend: totalRequests++, the
\* cache is looked up, and the tier selected is attempted
EnterExecute(score, capability, key, attempts) ==
    LET hit == key /= "" /\ forgeCache[key] /= <<>> /\ forgeCache[key][1] > now
    IN  /\ forgeStats' = [totalRequests |-> forgeStats.totalRequests + 1,
                          cacheHits |-> forgeStats.cacheHits + (IF hit THEN 1 ELSE 0)]
        /\ forge' = [state |-> IF hit THEN "returned" ELSE "calling",
                     score |-> score, capability |-> capability, key |-> key,
                     attempts |-> IF hit THEN attempts
                                  ELSE Append(attempts, SelectTier(score, capability))]

\* a caller's execute(request)
ForgeExecute(score, capability, key) ==
    /\ forge.state /= "calling"
    /\ forgeStats.totalRequests < MaxForgeRequests
    /\ EnterExecute(score, capability, key, <<>>)
    /\ UNCHANGED <<now, auditVars, queueVars, breakerVars, govVars, orchVars, busVars,
                   healVars, daemonVars, toolVars, shutdown, gatewayVars, forgeCache>>

\* client.messages.create() resolves: the response is cached under the key
BackendReturns ==
    /\ forge.state = "calling"
    /\ forge' = [forge EXCEPT !.state = "returned"]
    /\ forgeCache' = IF forge.key /= ""
                     THEN [forgeCache EXCEPT ![forge.key] = <<now + ResultCacheTtlMs>>]
                     ELSE forgeCache
    /\ UNCHANGED <<now, auditVars, queueVars, breakerVars, govVars, orchVars, busVars,
                   healVars, daemonVars, toolVars, shutdown, gatewayVars, forgeStats>>

\* client.messages.create() rejects, the catch block:
\*     haiku  -> return this.execute({...request, requiredCapability: 'reasoning'})
\*     sonnet -> return this.execute({...request, requiredCapability: 'complex'})
\*     opus   -> throw err
BackendFails ==
    LET tier == forge.attempts[Len(forge.attempts)]
    IN  /\ forge.state = "calling"
        /\ IF tier = "opus"
           THEN /\ forge' = [forge EXCEPT !.state = "threw"]
                /\ UNCHANGED forgeStats
           ELSE /\ Len(forge.attempts) < MaxAttempts
                /\ EnterExecute(forge.score,
                                IF tier = "haiku" THEN "reasoning" ELSE "complex",
                                forge.key, forge.attempts)
        /\ UNCHANGED <<now, auditVars, queueVars, breakerVars, govVars, orchVars, busVars,
                       healVars, daemonVars, toolVars, shutdown, gatewayVars, forgeCache>>

InitForge ==
    /\ forge = [state |-> "idle", score |-> 0, capability |-> "none", key |-> "",
                attempts |-> <<>>]
    /\ forgeStats = [totalRequests |-> 0, cacheHits |-> 0]
    /\ forgeCache = [k \in CacheKeys \ {""} |-> <<>>]

(***************************************************************************)
(* index.ts: the handler of SIGINT and SIGTERM                             *)
(***************************************************************************)

\* a2a.destroy(): the queues and the acknowledged set are cleared
BusDestroy ==
    /\ mailboxes' = [a \in BusAgents |-> <<>>]
    /\ registered' = {}
    /\ acknowledged' = <<>>
    /\ UNCHANGED <<msgCount, placed, consumedBy, ackedDirectly, expiredEvents, lastReceive>>

\* shutdown(signal) up to its await of daemon.stop():
\*     auditTrail.record('system', 'shutdown', 'doctarx-agents', {signal});
\*     a2a.destroy(); tokenForge.destroy(); await daemon.stop();
\* There is no try block: when record() throws the handler's promise is
\* rejected there and nothing after it runs.
Shutdown(signal, storeOk) ==
    LET threw == ~storeOk \/ UniqueViolation(auditRows, sequenceCounter + 1)
    IN  /\ shutdown.state = "idle"
        /\ RecordEntry("system", "shutdown", "doctarx-agents", << <<"signal", signal>> >>,
                       storeOk)
        /\ IF threw
           THEN /\ shutdown' = [state |-> "rejected", steps |-> <<>>, failed |-> <<"record">>]
                /\ UNCHANGED <<busVars, forgeCache, daemonVars>>
           ELSE /\ BusDestroy
                /\ forgeCache' = [k \in DOMAIN forgeCache |-> <<>>]
                /\ IF running THEN StopBegins ELSE UNCHANGED daemonVars
                /\ shutdown' = [state |-> "awaiting",
                                steps |-> <<"record", "a2a.destroy", "tokenForge.destroy",
                                            "daemon.stop">>,
                                failed |-> <<>>]
        /\ UNCHANGED <<now, queueVars, breakerVars, govVars, orchVars, healVars, toolVars,
                       gatewayVars, forge, forgeStats>>

\* shutdown(signal) from its await on: daemon.stop() has closed the store,
\* then orchestrator.stop() and process.exit(0)
ShutdownResumes ==
    /\ shutdown.state = "awaiting"
    /\ IF stopsAwaiting /= <<>> THEN StopEnds ELSE UNCHANGED daemonVars
    /\ shutdown' = [shutdown EXCEPT !.state = "exited",
                                    !.steps = @ \o <<"orchestrator.stop", "exit">>]
    /\ UNCHANGED <<now, auditVars, queueVars, breakerVars, govVars, orchVars, busVars,
                   healVars, toolVars, gatewayVars, forgeVars>>

InitShutdown == shutdown = [state |-> "idle", steps |-> <<>>, failed |-> <<>>]

Init ==
    /\ now = 0
    /\ InitAudit
    /\ InitQueue
    /\ InitBreakers
    /\ InitGov
    /\ InitOrch
    /\ InitBus
    /\ InitHeal
    /\ InitDaemon
    /\ InitTools
    /\ InitGateway
    /\ InitForge
    /\ InitShutdown

NextAudit == RecordCall \/ Tick(MaxClock)

SpecAudit == Init /\ [][NextAudit]_vars

\* the ledger over shutdowns and boots: the entries the process records
\* (actor "sys"), at one time of the clock
NextLedger ==
    \/ \E action \in Actions, target \in Targets, details \in DetailsInputs,
          storeOk \in BOOLEAN : Record("sys", action, target, details, storeOk)
    \/ Reopen

SpecLedger == Init /\ [][NextLedger]_vars

NextTamper == RecordCall \/ Tick(MaxClock) \/ Tamper

SpecTamper == Init /\ [][NextTamper]_vars

NextQueue == EnqueueCall \/ SettleCall

SpecQueue == Init /\ [][NextQueue]_vars

\* every executeTask() call in flight settles: the handler returns or throws
SpecQueueFair == SpecQueue /\ WF_vars(SettleCall)

NextBreaker ==
    \/ \E name \in Names :
          CanExecute(name) \/ RecordSuccess(name) \/ RecordFailure(name) \/ Reset(name)
    \/ Evaluate
    \/ Tick(MaxBreakerClock)

SpecBreaker == Init /\ [][NextBreaker]_vars

NextGov ==
    \/ \E toolName \in ToolNames, authority \in AuthorityLevels :
          SetOverride(toolName, authority)
    \/ \E toolName \in ToolNames : RemoveOverride(toolName)
    \/ \E ps \in PolicyInputs : SetPolicies(ps)
    \/ \E tool \in Tools, value \in EstimatedValues : ValidateValueThreshold(tool, value)

SpecGov == Init /\ [][NextGov]_vars

\* the tool_use loop, with the governance and breaker state it could consult
NextInvoke ==
    \/ \E type \in TaskTypes : CreateTask(type)
    \/ \E id \in TaskIds, payloadOk \in BOOLEAN : ExecuteTask(id, payloadOk)
    \/ \E id \in TaskIds, tool \in Tools, outcome \in ToolOutcomes :
          InvokeTool(id, tool, outcome)
    \/ \E toolName \in ToolNames : RecordFailure(toolName)

SpecInvoke == Init /\ [][NextInvoke]_vars

NextOrch ==
    \/ \E type \in TaskTypes : CreateTask(type)
    \/ \E id \in TaskIds, payloadOk \in BOOLEAN : ExecuteTask(id, payloadOk)
    \/ \E id \in TaskIds, outcome \in {"returns", "throws"} : HandlerSettles(id, outcome)
    \/ \E id \in TaskIds : CancelTask(id)

SpecOrch == Init /\ [][NextOrch]_vars

\* the registry and the sub-agents that use it
NextTools ==
    \/ \E type \in TaskTypes : CreateTask(type)
    \/ \E id \in TaskIds : ExecuteTask(id, TRUE)
    \/ \E name \in RegistryNames, impl \in ToolImpls : RegisterTool(name, impl)
    \/ \E id \in TaskIds, name \in RegistryNames : ToolUse(id, name)

SpecTools == Init /\ [][NextTools]_vars

NextGateway ==
    \/ \E path \in HttpPaths, token \in Tokens, bodyOk \in BOOLEAN :
           HttpRequest(path, token, bodyOk)
    \/ \E c \in ClientIds : WsConnect(c)
    \/ \E c \in ClientIds : WsClose(c)
    \/ \E c \in ClientIds, type \in {"command", "query", "event"}, token \in Tokens,
          parseOk \in BOOLEAN :
           WsMessage(c, type, token, parseOk)

SpecGateway == Init /\ [][NextGateway]_vars

NextForge ==
    \/ \E score \in Scores, capability \in Capabilities, key \in CacheKeys :
           ForgeExecute(score, capability, key)
    \/ BackendReturns
    \/ BackendFails
    \/ Tick(MaxClock)

SpecForge == Init /\ [][NextForge]_vars

\* the process from boot to its exit: the entries it records, the daemon
\* started, and the signal
NextShutdown ==
    \/ \E storeOk \in BOOLEAN : Record("sys", "boot", "app", EmptyDetails, storeOk)
    \/ Start
    \/ StartResumes
    \/ \E signal \in {"SIGINT", "SIGTERM"}, storeOk \in BOOLEAN : Shutdown(signal, storeOk)
    \/ ShutdownResumes

SpecShutdown == Init /\ [][NextShutdown]_vars

NextBus ==
    \/ \E from \in Senders, to \in BusAgents \ Senders, ttl \in Ttls : Send(from, to, ttl)
    \/ \E id \in 1..MaxMessages, from \in Responders, ttl \in Ttls : Respond(id, from, ttl)
    \/ \E from \in Senders, ttl \in Ttls : Broadcast(from, ttl)
    \/ \E agentId \in BusAgents, limit \in Limits : Receive(agentId, limit)
    \/ \E agentId \in BusAgents, limit \in Limits : Consume(agentId, limit)
    \/ \E id \in 1..MaxMessages : Acknowledge(id)
    \/ \E agentId \in BusAgents : RegisterAgent(agentId)
    \/ PurgeExpired
    \/ Tick(MaxBusClock)

SpecBus == Init /\ [][NextBus]_vars

NextHeal == \E report \in HealthReports, gcAvailable \in BOOLEAN :
                RunHealthCheck(report, gcAvailable)

SpecHeal == Init /\ [][NextHeal]_vars

\* the daemon's lifecycle, its timers and the queue its jobs feed
NextDaemon ==
    \/ Start
    \/ StartResumes
    \/ Stop
    \/ StopResumes
    \/ TimerTick
    \/ \E id \in JobIds : JobTimerFires(id)
    \/ \E id \in JobIds : ManualRun(id)
    \/ \E id \in JobIds : DirectWorkEnds(id)
    \/ SettleCall
    \/ Tick(MaxClock)

SpecDaemon == Init /\ [][NextDaemon]_vars

Next == NextTamper \/ NextQueue \/ NextBreaker \/ NextGov \/ NextInvoke \/ NextOrch
            \/ NextBus \/ NextHeal \/ NextDaemon \/ NextLedger
            \/ NextTools \/ NextGateway \/ NextForge \/ NextShutdown

Spec == Init /\ [][Next]_vars

(***************************************************************************)
(* The claims                                                              *)
(***************************************************************************)

\* C1: after any sequence of record() calls on an empty store, verifyChain()
\* returns valid = true with totalEntries equal to the number of entries
\* recorded; the first entry's previousHash is the genesis hash of sixty-four
\* zeros and every later entry's previousHash is the hash of the entry before it.
C1_ChainValid ==
    /\ VerifyChain.valid
    /\ VerifyChain.totalEntries = recorded
    /\ Len(GenesisHash) = 64
    /\ \A i \in 1..Len(auditRows) :
          auditRows[i].previous_hash =
              IF i = 1 THEN GenesisHash ELSE auditRows[i - 1].hash

\* C1's case: three calls, one of which threw, and two entries chained.
C1_Witness ==
    /\ recordCalls = 3
    /\ recorded = 2
    /\ auditRows[2].previous_hash = auditRows[1].hash
    /\ VerifyChain.totalEntries = 2

\* C2: once one persisted row has been altered, verifyChain() returns
\* valid = false and brokenAt is the sequence number of the altered row (the one
\* it was recorded with, or the one it carries now).
C2_TamperDetected ==
    tampered /= <<>> =>
        /\ ~VerifyChain.valid
        /\ VerifyChain.brokenAt \in {tampered[2].sequence_number,
                                     auditRows[tampered[1]].sequence_number}

\* C3: the sequence numbers of the persisted entries are exactly 1..n in append
\* order, whatever calls succeeded or failed.
C3_SequenceGapless ==
    \A i \in 1..Len(auditRows) : auditRows[i].sequence_number = i

C5_SingleDrainer ==
    /\ activeDrains <= 1
    /\ Cardinality(executing) <= 1

\* C5's case: enqueueTask was called twice more while a task was executing; the
\* calls found the flag set and only appended.
C5_Witness ==
    /\ processing
    /\ activeDrains = 1
    /\ Cardinality(executing) = 1
    /\ Len(taskQueue) = 2

\* C6: for every operation name, canExecute(name) is true while fewer than
\* threshold failures have been recorded for it (also for a name never seen), and
\* once threshold consecutive failures have been recorded the breaker is open and
\* canExecute(name) is false for as long as the cooldown has not elapsed.
C6_OpensAtThreshold ==
    \A n \in Names :
        /\ totalFails[n] < Threshold => CanExecuteResult(breakers[n], now)
        /\ (consecFails[n] >= Threshold /\ ~CooldownElapsed(breakers[n], now)) =>
               /\ breakers[n].state = "open"
               /\ ~CanExecuteResult(breakers[n], now)

\* C6's case: the threshold-th consecutive failure has just been recorded for
\* one name, and canExecute was then refused; the other name was never seen.
C6_Witness ==
    /\ lastCall.op = "canExecute"
    /\ lastCall.name = "tool-a"
    /\ lastCall.result = FALSE
    /\ consecFails["tool-a"] = Threshold
    /\ totalFails["tool-a"] = Threshold
    /\ breakers["tool-a"].state = "open"
    /\ ~breakers["tool-b"].known

\* C7: a canExecute(name) call on an open breaker whose cooldown has elapsed
\* returns true and leaves the breaker half_open; one made before the cooldown
\* has elapsed leaves it open.
C7_HalfOpenAfterCooldown ==
    (lastCall.op = "canExecute" /\ lastCall.preState = "open") =>
        IF lastCall.at - lastCall.preOpenedAt[1] >= CooldownMs
        THEN /\ lastCall.result = TRUE
             /\ breakers[lastCall.name].state = "half_open"
        ELSE breakers[lastCall.name].state = "open"

\* C7's case: the query that found the cooldown elapsed.
C7_Witness ==
    /\ lastCall.op = "canExecute"
    /\ lastCall.preState = "open"
    /\ lastCall.at - lastCall.preOpenedAt[1] >= CooldownMs
    /\ lastCall.result = TRUE
    /\ breakers[lastCall.name].state = "half_open"

\* C8: recordSuccess(name) leaves failureCount = 0 whatever the state was, and
\* closes a half_open breaker; so a closed breaker is opened by recordFailure
\* only when threshold failures were recorded with no success in between.
C8_SuccessResets ==
    /\ lastCall.op = "recordSuccess" =>
          /\ breakers[lastCall.name].failureCount = 0
          /\ lastCall.preState = "half_open" => breakers[lastCall.name].state = "closed"
    /\ (/\ lastCall.op = "recordFailure"
        /\ lastCall.preState = "closed"
        /\ breakers[lastCall.name].state = "open") =>
          consecFails[lastCall.name] >= Threshold

\* C8's case: a success recorded on a half_open breaker with failures counted.
C8_Witness ==
    /\ lastCall.op = "recordSuccess"
    /\ lastCall.preState = "half_open"
    /\ lastCall.preCount >= Threshold
    /\ breakers[lastCall.name].state = "closed"
    /\ breakers[lastCall.name].failureCount = 0

\* the one-step promotion C10 speaks of
C10_Promoted(base) == IF base = "auto_approve" THEN "require_approval" ELSE "require_human"

\* C9: for any tool with requiresApproval = true and riskLevel = critical,
\* getAuthority returns require_human, whatever setOverride, removeOverride and
\* setPolicies calls came before.
C9_CriticalRequiresHuman ==
    \A tool \in Tools :
        (tool.requiresApproval /\ tool.riskLevel = "critical") =>
            GetAuthority(tool) = "require_human"

\* C10: after validateValueThreshold(tool, estimatedValue): if the policy of the
\* tool's risk level defines maxAutoApproveValue and estimatedValue is larger,
\* the result is the base authority promoted one step and exactly one entry,
\* whose reason starts with "Value threshold exceeded", was pushed on the
\* decision log; otherwise the result is the base authority and the log is as it
\* was.
C10_ValueEscalation ==
    lastValidate.called =>
        IF lastValidate.cap /= <<>> /\ lastValidate.value > lastValidate.cap[1]
        THEN /\ lastValidate.result = C10_Promoted(lastValidate.base)
             /\ \E entry \in [timestamp : {now}, tool : ToolNames,
                               decision : {lastValidate.result},
                               reason : {"Value threshold exceeded: $"
                                           \o ToString(lastValidate.value)}] :
                    decisionLog = PushDecision(lastValidate.logBefore, entry)
        ELSE /\ lastValidate.result = lastValidate.base
             /\ decisionLog = lastValidate.logBefore

\* C11: a tool whose governance authority is require_approval or require_human
\* is never executed by a handler's tool-invocation path: the invocation ends
\* with the outcome "approval required" and the tool's execute function is not
\* called.
C11_ApprovalBlocksExecution ==
    (lastInvoke.called /\ lastInvoke.authority \in {"require_approval", "require_human"})
        => (~lastInvoke.executed /\ lastInvoke.outcome = "approval required")

\* C12: when the circuit breaker of a tool is open, an invocation of that tool
\* ends with the failure "breaker open" and the tool's execute function is not
\* called.
C12_OpenBreakerBlocksExecution ==
    (lastInvoke.called /\ lastInvoke.breakerState = "open")
        => (~lastInvoke.executed /\ lastInvoke.outcome = "breaker open")

\* C13: every tool invocation for which governance requires audit appends
\* exactly one audit entry (actor = agent id, action = tool name), and every
\* tool invocation makes exactly one observation on the breaker registry:
\* recordSuccess on a successful result, recordFailure on a failed or throwing
\* one.
C13_OneAuditEntryOneObservation ==
    lastInvoke.called =>
        /\ lastInvoke.auditRequired =>
              /\ Len(lastInvoke.auditEntries) = 1
              /\ lastInvoke.auditEntries[1].actor = lastInvoke.agentId
              /\ lastInvoke.auditEntries[1].action = lastInvoke.tool.name
        /\ lastInvoke.registryCalls =
              <<IF lastInvoke.outcome = "success" THEN "recordSuccess" ELSE "recordFailure">>

\* the directed messages (type request) placed in the bus
C14_Directed == {p \in placed : p.msg.type = "request"}

\* C14: after send(from, to, payload, ttl), a receive(to) returns the message as
\* long as its TTL has not elapsed (the message being unacknowledged and the
\* mailbox holding no more than `limit` messages) and changes no bus state; a
\* consume(to) returns what receive(to) would; and no receive(to) returns a
\* message that an earlier consume(to) returned.
C14_SendReceiveConsume ==
    /\ lastReceive.op \in {"receive", "consume"} =>
          \A p \in C14_Directed :
              ( /\ p.msg.toAgent = lastReceive.agent
                /\ lastReceive.placedBefore >= p.msg.id
                /\ lastReceive.at - p.msg.timestamp < p.msg.ttl
                /\ lastReceive.held <= lastReceive.limit
                /\ p.msg.id \notin ackedDirectly
                /\ \A a \in BusAgents : p.msg.id \notin lastReceive.consumedBefore[a] )
              => \E i \in 1..Len(lastReceive.result) : lastReceive.result[i] = p.msg
    /\ lastReceive.op = "receive" => ~lastReceive.changed
    /\ lastReceive.op = "receive" =>
          \A i \in 1..Len(lastReceive.result) :
              lastReceive.result[i].id \notin lastReceive.consumedBefore[lastReceive.agent]

\* C15: for every message placed in the bus, a receive made once ttl has
\* elapsed since its timestamp does not return it, the a2a:expired event is
\* emitted at most once for it, and exactly once by the time the expiration
\* sweep has dropped it from the mailboxes.
C15_ExpiresExactlyOnce ==
    \A p \in placed :
        /\ (lastReceive.op \in {"receive", "consume"}
               /\ lastReceive.placedBefore >= p.msg.id
               /\ lastReceive.at - p.msg.timestamp >= p.msg.ttl)
              => \A i \in 1..Len(lastReceive.result) : lastReceive.result[i] /= p.msg
        /\ expiredEvents[p.msg.id] <= 1
        /\ (p.boxes /= {} /\ \A a \in p.boxes : p.msg.id \notin SeqIds(mailboxes[a]))
              => expiredEvents[p.msg.id] = 1

\* the broadcast messages placed in the bus
C16_Broadcasts == {p \in placed : p.msg.type = "broadcast"}

\* C16: after broadcast(from, payload, ttl) the message is held in the mailbox
\* of every known agent other than the sender until its TTL elapses, the
\* sender's mailbox never contains it, and the receive of each such recipient
\* returns it (the mailbox holding no more than `limit` messages) until that
\* recipient has consumed it, it was acknowledged by id, or its TTL has elapsed.
C16_BroadcastReachesEveryRecipient ==
    \A p \in C16_Broadcasts :
        /\ p.boxes = p.known \ {p.msg.fromAgent}
        /\ p.msg.id \notin SeqIds(mailboxes[p.msg.fromAgent])
        /\ \A r \in p.boxes :
              /\ ~Expired(p.msg, now) => p.msg.id \in SeqIds(mailboxes[r])
              /\ ( /\ lastReceive.op \in {"receive", "consume"}
                   /\ lastReceive.agent = r
                   /\ lastReceive.at >= p.msg.timestamp
                   /\ lastReceive.at - p.msg.timestamp < p.msg.ttl
                   /\ lastReceive.held <= lastReceive.limit
                   /\ lastReceive.placedBefore >= p.msg.id
                   /\ p.msg.id \notin ackedDirectly
                   /\ p.msg.id \notin lastReceive.consumedBefore[r] )
                 => \E i \in 1..Len(lastReceive.result) : lastReceive.result[i] = p.msg

\* C17: recovery is invoked by a health-check run only if that run and the two
\* before it each reported an unhealthy probe; the third such consecutive run
\* invokes recovery exactly once and emits healing:recovery.
C17_RecoveryAfterThreeUnhealthyRuns ==
    lastRun.called =>
        /\ lastRun.recoveryCalls > 0 => lastRun.streak >= 3
        /\ lastRun.streak = 3 => (lastRun.recoveryCalls = 1 /\ lastRun.recoveryEvents = 1)

\* the task:started, task:completed and task:failed events of a task, in order
C18_TaskEvents(id) ==
    LET Mine(e) == e[2] = id /\ e[1] \in {"task:started", "task:completed", "task:failed"}
        mine == SelectSeq(events, Mine)
    IN  [i \in 1..Len(mine) |-> mine[i][1]]

\* C18: every executeTask(task) call whose handler has returned or thrown has
\* returned a TaskResult; the task then has startedAt, completedAt and result
\* set; task:started was emitted first and then exactly one of task:completed,
\* if and only if the result is a success, and task:failed, if and only if it
\* is not, the errors then being populated.  Until then only task:started was
\* emitted.
C18_ExecuteTaskAlwaysReturns ==
    \A id \in TaskIds :
        /\ (tasks[id].startedAt /= <<>> /\ id \notin handlers) => returned[id] /= <<>>
        /\ returned[id] /= <<>> =>
              /\ tasks[id].startedAt /= <<>>
              /\ tasks[id].completedAt /= <<>>
              /\ tasks[id].result /= <<>>
              /\ C18_TaskEvents(id) =
                    <<"task:started",
                      IF returned[id][1].success THEN "task:completed" ELSE "task:failed">>
              /\ ~returned[id][1].success => returned[id][1].errors /= <<>>
        /\ id \in handlers => C18_TaskEvents(id) = <<"task:started">>

\* C18 witness: one executeTask call has returned a success and another has
\* returned the failure made from the exception of its handler.
C18_Witness ==
    \E id, other \in TaskIds :
        /\ returned[id] = <<SuccessResult>>
        /\ returned[other] = <<FailureResult("handler threw")>>
        /\ tasks[other].completedAt /= <<>>

\* C19: once the cancel route has marked a task whose handler was running, the
\* task keeps the completedAt and the result (errors = 'Cancelled by admin')
\* that the route wrote: the handler's result, arriving later, is discarded.
C19_CancelledStaysCancelled ==
    \A id \in TaskIds :
        (cancelled[id] /= <<>> /\ cancelled[id][1].running) =>
            /\ tasks[id].completedAt = <<cancelled[id][1].completedAt>>
            /\ tasks[id].result = <<CancelledResult>>

\* the records the execution log holds for a task
C20_Records(task) == {k \in 1..Len(execLog) : execLog[k][1] = task.id}

C21_InFlight(id) ==
    directWork[id] + Cardinality({t \in jobTasks[id] : t \notin resolved})

\* C21: a scheduled job never overlaps with itself: at no time are two
\* invocations of the same job in progress, whichever of its interval, the
\* tick's due check or a manual run fired them.
C21_NoSelfOverlap == \A id \in JobIds : C21_InFlight(id) <= 1

\* C22: a job that its interval or the tick fires while the drainer is busy
\* only appends a task to the queue: none of its work is started outside the
\* queue, and no task starts.
C22_JobsGoThroughTheQueue ==
    (lastFire.called /\ lastFire.source \in {"interval", "tick"} /\ lastFire.busy)
        => (lastFire.direct = {} /\ ~lastFire.startedTask)

\* C23: once a stop() has completed, and until start() is called anew, no
\* interval is left set, so no tick and no job can run.
C23_StoppedMeansNoTimers == quiesced => liveTimers = {}

\* C24: the store is closed only after every task that was being processed
\* when stop() was called has been recorded in the execution log.
C24_StopDrainsInFlight ==
    ~memoryOpen =>
        \A id \in inFlightAtStop : \E i \in 1..Len(execLog) : execLog[i][1] = id

\* C25: a record() call whose write to the store failed left no row: the ledger
\* holds no entry made by that call.
C25_FailedWriteLeavesNoRow ==
    \A k \in failedWrites : \A i \in 1..Len(auditRows) : auditRows[i].id /= k

\* C25: a write failed after an entry had been persisted, and the ledger still
\* holds that entry
C25_Witness ==
    \E k \in failedWrites : \E i \in 1..Len(auditRows) : auditRows[i].id < k

\* the entry persisted before row i of the table, as <<sequence number, hash>>
C26_Before(i) ==
    IF i = 1 THEN <<0, GenesisHash>>
    ELSE <<auditRows[i - 1].sequence_number, auditRows[i - 1].hash>>

\* C26: after the ledger was re-opened, verifyChain() is valid and counts the
\* entries held at the re-open plus those recorded since; every entry recorded
\* since carries the hash of the entry persisted before it and a greater
\* sequence number, and the entry of the first record() call after the re-open
\* carries the number next to the last persisted one.
C26_ReopenContinuesChain ==
    \A r \in 1..Len(reopenLog) :
        LET at == reopenLog[r]
        IN  /\ VerifyChain.valid
            /\ VerifyChain.totalEntries
                  = at.rows + Cardinality({i \in 1..Len(auditRows) : auditRows[i].id > at.calls})
            /\ \A i \in 1..Len(auditRows) :
                  auditRows[i].id > at.calls =>
                      /\ i > at.rows
                      /\ auditRows[i].previous_hash = C26_Before(i)[2]
                      /\ auditRows[i].sequence_number > C26_Before(i)[1]
                      /\ auditRows[i].id = at.calls + 1 =>
                             auditRows[i].sequence_number = C26_Before(i)[1] + 1

\* C26: a ledger was re-opened over a store that held an entry, and an entry
\* was recorded after that
C26_Witness ==
    \E r \in 1..Len(reopenLog) :
        /\ reopenLog[r].rows >= 1
        /\ \E i \in 1..Len(auditRows) : auditRows[i].id = reopenLog[r].calls + 1

\* C27: a recordFailure(name) on a half_open breaker leaves it open with
\* openedAt at the time of the call, so canExecute(name) is refused from then
\* until a full cooldown has passed, and no longer.
C27_FailedProbeReopens ==
    (lastCall.op = "recordFailure" /\ lastCall.preState = "half_open") =>
        LET b == breakers[lastCall.name]
        IN  /\ b.state = "open"
            /\ b.openedAt = <<lastCall.at>>
            /\ \A t \in lastCall.at..(lastCall.at + CooldownMs - 1) : ~CanExecuteResult(b, t)
            /\ CanExecuteResult(b, lastCall.at + CooldownMs)

\* C27's case: the probe failed later than the breaker had first opened
C27_Witness ==
    /\ lastCall.op = "recordFailure"
    /\ lastCall.preState = "half_open"
    /\ lastCall.preOpenedAt /= <<>>
    /\ lastCall.preOpenedAt[1] < lastCall.at
    /\ breakers[lastCall.name].state = "open"

\* C28: in every reachable state of the registry, openedAt is set exactly when
\* the breaker is open or half_open, a closed breaker counts no more failures
\* than the threshold, and a reset(name) leaves the breaker closed with
\* failureCount 0.
C28_BreakerInvariants ==
    /\ \A n \in Names :
          /\ (breakers[n].openedAt /= <<>>) <=> (breakers[n].state \in {"open", "half_open"})
          /\ breakers[n].state = "closed" => breakers[n].failureCount <= Threshold
    /\ lastCall.op = "reset" =>
          /\ breakers[lastCall.name].state = "closed"
          /\ breakers[lastCall.name].failureCount = 0

\* C28's case: an open breaker that had counted its failures was reset
C28_Witness ==
    /\ lastCall.op = "reset"
    /\ lastCall.preState = "open"
    /\ lastCall.preCount >= Threshold
    /\ lastCall.preOpenedAt /= <<>>
    /\ breakers[lastCall.name].state = "closed"

\* C29: of two tasks of equal priority, the one enqueued first is the one whose
\* processing starts first.
C29_FifoWithinPriority ==
    \A i, j \in 1..Len(startOrder) :
        (i < j /\ startOrder[i].priority = startOrder[j].priority) =>
            startOrder[i].id < startOrder[j].id

\* C29's case: two tasks of equal priority waited in the queue together, a task
\* of another priority was enqueued between them, and the queue was sorted
\* again before the second of them was popped.
C29_Witness ==
    \E i, j \in 1..Len(startOrder) :
        /\ i < j
        /\ startOrder[i].priority = startOrder[j].priority
        /\ \E k \in 1..Len(startOrder) :
              /\ startOrder[i].id < startOrder[k].id
              /\ startOrder[k].id < startOrder[j].id
              /\ startOrder[k].priority /= startOrder[i].priority
        /\ \E w \in 1..Len(waitingAtStart) :
              {startOrder[i], startOrder[j]} \subseteq waitingAtStart[w]

\* the mapping C30 states
C30_Authority(risk) ==
    CASE risk = "critical" -> "require_human"
      [] risk = "high" -> "require_approval"
      [] risk = "medium" -> "log_only"
      [] risk = "low" -> "auto_approve"

\* C30: while the default policies are installed, a tool with requiresApproval
\* = false and no override gets the authority of its risk level (critical:
\* require_human, high: require_approval, medium: log_only, low: auto_approve)
\* and requires audit at every level but low.
C30_DefaultMapping ==
    policies = DefaultPolicies =>
        \A tool \in Tools :
            (~tool.requiresApproval /\ overrides[tool.name] = <<>>) =>
                /\ GetAuthority(tool) = C30_Authority(tool.riskLevel)
                /\ RequiresAudit(tool) = (tool.riskLevel /= "low")

\* C30's case: the engine was asked about a medium-risk tool and answered
\* log_only, with the default policies installed and no override set
C30_Witness ==
    /\ policies = DefaultPolicies
    /\ \A n \in ToolNames : overrides[n] = <<>>
    /\ lastValidate.called
    /\ lastValidate.risk = "medium"
    /\ lastValidate.base = "log_only"
    /\ lastValidate.result = "log_only"

\* the last validateValueThreshold call exceeded the threshold, so it called
\* recordDecision
C31_Recorded ==
    /\ lastValidate.called
    /\ lastValidate.cap /= <<>>
    /\ lastValidate.cap[1] /= 0
    /\ lastValidate.value > lastValidate.cap[1]

C32_FirstBindingStays ==
    \A n \in RegistryNames : firstBound[n] /= <<>> => toolRegistry[n] = firstBound[n]

\* the steps of the shutdown handler, in order
C33_Steps ==
    <<"record", "a2a.destroy", "tokenForge.destroy", "daemon.stop", "orchestrator.stop",
      "exit">>

\* C33: every step of the shutdown handler is best-effort: a step that fails
\* does not reject the handler, and a handler that has exited has run every
\* step, in order.
C33_ShutdownBestEffort ==
    /\ shutdown.state /= "rejected"
    /\ shutdown.state = "exited" => shutdown.steps = C33_Steps

\* C34: an HTTP request or a WebSocket message (command, query, event) that
\* does not carry the configured secret, the health check apart, emits no
\* event of the core and is sent on to no other client.
C34_NoSecretNoEffect ==
    (lastInbound.called /\ ~lastInbound.carried /\ lastInbound.target /= "/health") =>
        /\ lastInbound.emitted = <<>>
        /\ lastInbound.sentTo = {}

\* C35: with every executeTask call settling, every task passed to
\* enqueueTask is eventually resolved, and the drainer's busy flag is always
\* eventually released, a failing log write included.
C35_EveryTaskResolved ==
    /\ \A id \in 1..MaxTasks : (taskCount >= id) ~> (id \in resolved)
    /\ processing ~> ~processing

\* C36: a sub-agent executes only the tools of its role's list, and the
\* execution context handed to the tool exposes only that list.
C36_OnlyAllowedToolsRun ==
    (lastToolUse.called /\ lastToolUse.executed) =>
        /\ lastToolUse.name \in AgentTools(lastToolUse.role)
        /\ lastToolUse.ctxTools \subseteq AgentTools(lastToolUse.role)

\* the ids a consume had acknowledged before the last receive or consume
C37_AckedBefore == UNION {lastReceive.consumedBefore[a] : a \in BusAgents}

\* C37: a message that has been acknowledged is not returned by a later
\* receive or consume by any agent, the pruning of the acknowledged set within
\* the message's TTL included.  Stated for the acknowledgements of consume.
C37_AckedNeverReturned ==
    lastReceive.op \in {"receive", "consume"} =>
        \A i \in 1..Len(lastReceive.result) : lastReceive.result[i].id \notin C37_AckedBefore

\* C38: the success flag of the execution-log record of a processed task is
\* the success flag of its TaskResult: only a handler that succeeded is logged
\* with success = true.
C38_LogFlagIsResultFlag ==
    lastSettle /= <<>> => lastSettle[1].logged = (lastSettle[1].outcome = "success")

\* C39: a task the cancel route marked while it was waiting (no startedAt, no
\* handler) is never started afterwards: it gets no startedAt and no handler.
C39_CancelledWaitingNeverStarted ==
    \A id \in TaskIds :
        (cancelled[id] /= <<>> /\ ~cancelled[id][1].running) =>
            /\ tasks[id].startedAt = <<>>
            /\ id \notin handlers

\* C40: with the backend failing, execute() falls back to the next tier up
\* and attempts no tier twice, so that it ends in at most three attempts, for
\* every complexity score and every requiredCapability.
C40_OneAttemptPerTier ==
    /\ Len(forge.attempts) <= 3
    /\ \A i, j \in 1..Len(forge.attempts) : i /= j => forge.attempts[i] /= forge.attempts[j]

====
